---- MODULE Spec2Model ----
(***************************************************************************)
(* A model of neolib's thread pool (src/src/task/thread_pool.cpp) and of   *)
(* its event system (event.hpp, held in                                    *)
(* src/include/neolib/i_simple_variant.hpp).                               *)
(*                                                                         *)
(* PoolSpec        : the thread pool, its worker threads and the client    *)
(*                   threads calling start, cancel, wait and stop.         *)
(* PoolFairSpec    : the same, every thread going on while it can.         *)
(* PoolRunFairSpec : the same for a pool on which stop() is never called.  *)
(* EventSpec       : one event, its handlers and the threads that          *)
(*                   subscribe to it, trigger it and accept it.            *)
(* DeliverySpec    : the event with trigger types, same-thread handlers,   *)
(*                   ignored errors and threads that end.                  *)
(* QueueSpec       : the event with stateless handlers and the queues.     *)
(* HandleSpec      : the handles of the event and its control block.       *)
(* StaleSpec       : handles whose handler was unsubscribed by client id.  *)
(* ClientSpec      : subscribers that share a client id.                   *)
(* TrySpec         : the pool with reserve, start, try_start and stop.     *)
(* GrowFairSpec    : the pool with reserve and start, every thread going   *)
(*                   on while it can.                                      *)
(* VariantSpec     : two simple variants and their comparison.             *)
(* LockSpec        : the mutexes of the pool and the order in which its    *)
(*                   functions take them.                                  *)
(* FilterSpec      : the event with a filter installed and removed.        *)
(* AcceptSpec      : the event with handlers that accept it from a queue.  *)
(* TransactionSpec : one trigger handing its callbacks to the queues.      *)
(* LimiterSpec     : the recursion limiters of a thread.                   *)
(***************************************************************************)
EXTENDS Integers, Sequences, FiniteSets, TLC

(***************************************************************************)
(* Bounds of the model.                                                    *)
(***************************************************************************)
MaxTasks == 3
\* the subscriptions made to the event (the cookies handed out)
MaxCookie == 3
\* the triggers of the event (the values instance().triggerId takes)
MaxTriggerId == 2
\* how deep a thread nests sync_trigger calls (a handler that triggers again)
MaxDepth == 2

\* The values std::thread::hardware_concurrency() may give the constructor.
Concurrency == {1, 2}
\* The identities a worker thread may have, in creation order.
WorkerIds == 1..(CHOOSE n \in Concurrency : \A m \in Concurrency : m <= n)
\* The client threads: the threads that call start, cancel, wait and stop.
Clients == {1, 2}
Tasks == 1..MaxTasks
\* The priorities handed to start: a low and a high one.
Priorities == {1, 5}
\* The threads that use the event, each with its own async_event_queue.
EvThreads == {1, 2}
\* The cookies next_cookie() hands out.
Cookies == 1..MaxCookie

\* A value of the active slot that holds no task (iActiveTask == nullptr).
NoTask == 0
\* The pool mutex is free.
NoThread == 0
\* The identity of a client thread, as owner of the pool mutex.
ClientThread(c) == c

VARIABLES
    \* ---- thread_pool
    iThreads,           \* the number of worker threads (iThreads.size())
    iMaxThreads,        \* thread_pool::iMaxThreads
    \* ---- thread_pool_thread, per worker
    iWaitingTasks,      \* deque of (task, priority)
    iActiveTask,        \* the active slot
    wStopped,           \* thread_pool_thread::iStopped
    wpc,                \* where the worker thread is in exec()
    \* ---- thread_pool
    iIdle,              \* thread_pool::iIdle
    iStopped,           \* thread_pool::iStopped
    iMutex,             \* the client that holds the pool mutex inside start
    section,            \* what the owner of iMutex has left to do
    \* ---- client threads
    cpc,                \* where each client thread is
    carg,               \* the arguments and locals of the client's call
    \* ---- tasks
    nextTask,           \* tasks 1..nextTask-1 have been handed to start
    iCancelled,         \* the task's cancellation flag
    outcome,            \* "none", "running", "run" (run returned), "skipped"
    future,             \* the task's future has been signalled
    \* ---- history (read by no guard)
    cancelWhen,         \* when cancel() completed, relative to the worker's check
    tried,              \* per task: what the try_start that brought it returns
    \* ---- event: instance_data
    handlers,           \* handler list: (cookie, queue, handleInSameThreadAsEmitter,
                        \* handlerIsStateless, triggerId)
    contexts,           \* acceptance contexts: (accepted, handlersChanged), and who pushed it
    triggering,         \* instance().triggering
    triggerId,          \* instance().triggerId
    handlersChanged,    \* instance().handlersChanged
    iNextCookie,        \* event::iNextCookie
    \* ---- event: threads
    evMutex,            \* owner of event_mutex()
    stack,              \* per thread: the calls in progress (trigger and handler frames)
    evQueue,            \* per thread: the callbacks enqueued on its async_event_queue
    triggerType,        \* instance().triggerType
    ignoreErrors,       \* instance().ignoreErrors
    queueDestroyed,     \* per thread: its async_event_queue is destroyed (the thread ended)
    \* ---- event: history (read by no guard)
    lastReturn,         \* per thread: what its last sync_trigger returned
    lastAccept,         \* whose context the last accept() marked
    lastCall,           \* per thread: the callbacks its exec() invoked
    lastError,          \* per thread: what its last trigger call threw
    \* ---- event: handles
    handles,            \* the event_handle objects made so far
    referenceCount,     \* per cookie: handler::referenceCount
    iControl,           \* the event_control block of the event
    destroyed,          \* the event's destructor has run
    raised,             \* the exception a handle operation ended with
    \* ---- simple variant
    lhs,                \* the left operand of a comparison
    rhs,                \* the right operand
    compared,           \* what operator== and operator!= gave for them
    \* ---- event: filters
    filterCount,        \* instance().filterCount
    \* ---- event: the async transaction of one trigger call
    tx,                 \* the handlers, the locals handlerIndex and transaction of the
                        \* call, and the transaction ids of the entries of each queue
    \* ---- thread_pool: the mutexes
    lk,                 \* per thread: the lock and unlock operations its call has left
                        \* to do, and the mutexes it holds
    \* ---- recursion_limiter<Tag>, per thread
    tDepth,             \* the thread_local counter of depth()
    limiters            \* the live limiter objects, innermost last: iMaxDepth of each

\* what reserve and try_start add to the pool's state
capVars == << iMaxThreads, tried >>

poolVars == << iThreads, iWaitingTasks, iActiveTask, wStopped, wpc, iIdle, iStopped,
               iMutex, section, cpc, carg, nextTask, iCancelled, outcome,
               future, cancelWhen, capVars >>

\* the variables of the event that the first part of the event model uses
evCore == << handlers, contexts, triggering, triggerId, handlersChanged, iNextCookie,
             evMutex, stack, evQueue, lastReturn, lastAccept >>

\* those of the trigger type and of the queues' threads
dlvVars == << triggerType, ignoreErrors, queueDestroyed, lastCall, lastError >>

\* those of the handles and of the control block
hdlVars == << handles, referenceCount, iControl, destroyed, raised >>

\* those of the variants that are compared, the filter count of the event,
\* the transaction of a trigger call, the mutexes of the pool and the
\* recursion limiters
varVars == << lhs, rhs, compared, filterCount, tx, lk, tDepth, limiters >>

evVars == << evCore, dlvVars, hdlVars, varVars >>

vars == << poolVars, evVars >>

(***************************************************************************)
(* Helpers of the pool model.                                              *)
(***************************************************************************)
\* the worker threads of the pool
Workers == 1..iThreads

\* the threads of the lock model: the worker threads and one client thread
LockThreads == WorkerIds \cup {3}

\* what the client that owns the pool mutex has left to do: next_task() for
\* worker w, or nothing
NoSection == [step |-> "none", w |-> 1]
NoArg == [task |-> 0, priority |-> 0, worker |-> 0]

\* (mutant of UpperBound) std::lower_bound: the first position whose entry
\* has a priority that is not higher than aPriority
LowerBound(q, p) ==
    IF \E i \in 1..Len(q) : p >= q[i].priority
    THEN CHOOSE i \in 1..Len(q) :
            /\ p >= q[i].priority
            /\ \A j \in 1..(i - 1) : ~(p >= q[j].priority)
    ELSE Len(q) + 1

\* std::upper_bound of add(): the first position whose entry has a priority
\* strictly lower than aPriority (the end when there is none).
UpperBound(q, p) ==
    IF \E i \in 1..Len(q) : p > q[i].priority
    THEN CHOOSE i \in 1..Len(q) :
            /\ p > q[i].priority
            /\ \A j \in 1..(i - 1) : ~(p > q[j].priority)
    ELSE Len(q) + 1

\* (mutant of Emplace) the entry is pushed at the back, whatever its priority
EmplaceBack(q, t, p) == Append(q, [task |-> t, priority |-> p])

\* iWaitingTasks.emplace(where, aTask, aPriority)
Emplace(q, t, p) ==
    LET i == UpperBound(q, p)
    IN SubSeq(q, 1, i - 1) \o << [task |-> t, priority |-> p] >> \o SubSeq(q, i, Len(q))

\* (mutant of Active) an active() that finds no worker active
ActiveNever(w) == FALSE

\* thread_pool_thread::active()
Active(w) == iActiveTask[w] # NoTask

\* (mutant of SelectWorker) the last worker that is not active is selected
SelectLastWorker ==
    IF \E w \in Workers : ~Active(w)
    THEN CHOOSE w \in Workers : ~Active(w) /\ \A v \in (w + 1)..iThreads : Active(v)
    ELSE 1

\* the worker thread_pool::start() selects: the first one that is not active,
\* worker 0 (here 1) when all are active
SelectWorker ==
    IF \E w \in Workers : ~Active(w)
    THEN CHOOSE w \in Workers : ~Active(w) /\ \A v \in 1..(w - 1) : Active(v)
    ELSE 1

\* thread_pool::steal_work(aIdleThread): the first worker, in creation order
\* and other than the idle one, whose queue is not empty (0 when none)
Victim(w) ==
    LET c == { v \in Workers : v # w /\ iWaitingTasks[v] # << >> }
    IN IF c = {} THEN 0 ELSE CHOOSE v \in c : \A u \in c : v <= u

\* iWaitConditionVariable.notify_one(): one blocked waiter, if any, wakes up
\* and goes on to check the predicate again (a wakeup that nothing asked for
\* may come too, but nothing in the code makes it come).
NotifyOne(pcs) ==
    LET blocked == { c \in Clients : pcs[c] = "w_blocked" }
    IN IF blocked = {} THEN { pcs }
       ELSE { [pcs EXCEPT ![c] = "w_lock"] : c \in blocked }

\* (mutant of MayRun) the cancellation flag is not looked at
MayRunAlways(t) == TRUE

\* the cancellation check of exec(): the task is run unless it is cancelled
MayRun(t) == ~iCancelled[t]

\* run() has been called on the task
Ran(t) == outcome[t] \in {"running", "run"}

\* thread_pool::thread_pool(): reserve(std::thread::hardware_concurrency())
PoolInit ==
    /\ iThreads \in Concurrency
    /\ iMaxThreads = iThreads
    /\ tried = [t \in Tasks |-> "none"]
    /\ iWaitingTasks = [w \in WorkerIds |-> << >>]
    /\ iActiveTask = [w \in WorkerIds |-> NoTask]
    /\ wStopped = [w \in WorkerIds |-> FALSE]
    /\ wpc = [w \in WorkerIds |-> "wait"]
    /\ iIdle = TRUE
    /\ iStopped = FALSE
    /\ iMutex = NoThread
    /\ section = NoSection
    /\ cpc = [c \in Clients |-> "idle"]
    /\ carg = [c \in Clients |-> NoArg]
    /\ nextTask = 1
    /\ iCancelled = [t \in Tasks |-> FALSE]
    /\ outcome = [t \in Tasks |-> "none"]
    /\ future = [t \in Tasks |-> FALSE]
    /\ cancelWhen = [t \in Tasks |-> "none"]
    /\ lk = [prog |-> [th \in LockThreads |-> << >>], held |-> [th \in LockThreads |-> << >>]]

taskVars == << nextTask, iCancelled, outcome, future, cancelWhen >>
workerVars == << iThreads, iWaitingTasks, iActiveTask, wStopped, wpc >>

(***************************************************************************)
(* thread_pool::start(task, priority), also reached through run().         *)
(***************************************************************************)
\* "if (stopped()) return;" and then the wait for the pool mutex
StartCall(c, p) ==
    /\ cpc[c] = "idle"
    /\ nextTask <= MaxTasks
    /\ nextTask' = nextTask + 1
    /\ IF iStopped
       THEN UNCHANGED << cpc, carg >>
       ELSE /\ cpc' = [cpc EXCEPT ![c] = "start_lock"]
            /\ carg' = [carg EXCEPT ![c] = [task |-> nextTask, priority |-> p, worker |-> 0]]
    /\ UNCHANGED << workerVars, iIdle, iStopped, iMutex, section, iCancelled,
                    outcome, future, cancelWhen >>
    /\ UNCHANGED << capVars, evVars >>

\* the pool mutex is taken, a worker is selected and add() inserts the task;
\* add() goes on to next_task() when the worker is not active
StartAdd(c) ==
    /\ cpc[c] = "start_lock"
    /\ iMutex = NoThread
    /\ LET w == SelectWorker
       IN /\ iWaitingTasks' = [iWaitingTasks EXCEPT
                                  ![w] = Emplace(@, carg[c].task, carg[c].priority)]
          /\ IF ~Active(w)
             THEN /\ iMutex' = ClientThread(c)
                  /\ section' = [step |-> "next_task", w |-> w]
                  /\ cpc' = [cpc EXCEPT ![c] = "in_section"]
             ELSE /\ cpc' = [cpc EXCEPT ![c] = "started"]
                  /\ UNCHANGED << iMutex, section >>
    /\ UNCHANGED << iThreads, iActiveTask, wStopped, wpc, iIdle, iStopped, carg, taskVars >>
    /\ UNCHANGED << capVars, evVars >>

(***************************************************************************)
(* thread_pool_thread::next_task(), run under the pool mutex by a client   *)
(* inside add() and by the worker thread after release().                  *)
(***************************************************************************)
\* (mutant of AfterNextTask) steal_work hands over the victim's back entry and
\* leaves it in the victim's queue
AfterNextTaskStealCopy(w, slots) ==
    IF iWaitingTasks[w] # << >>
    THEN [slots |-> [slots EXCEPT ![w] = Head(iWaitingTasks[w]).task],
          queues |-> [iWaitingTasks EXCEPT ![w] = Tail(@)],
          goneIdle |-> FALSE]
    ELSE IF Victim(w) # 0
    THEN [slots |-> [slots EXCEPT ![w] =
                        iWaitingTasks[Victim(w)][Len(iWaitingTasks[Victim(w)])].task],
          queues |-> iWaitingTasks,
          goneIdle |-> TRUE]
    ELSE [slots |-> slots, queues |-> iWaitingTasks, goneIdle |-> TRUE]

\* the queues and slots next_task() leaves for worker w, which it finds with
\* the active slots `slots`
AfterNextTask(w, slots) ==
    IF iWaitingTasks[w] # << >>
    THEN \* the head becomes the active task
         [slots |-> [slots EXCEPT ![w] = Head(iWaitingTasks[w]).task],
          queues |-> [iWaitingTasks EXCEPT ![w] = Tail(@)],
          goneIdle |-> FALSE]
    ELSE IF Victim(w) # 0
    THEN \* steal_work: the victim's front entry is added to w, whose add()
         \* promotes it at once (the inner next_task); the outer next_task
         \* then finds the queue empty and reports thread_gone_idle()
         [slots |-> [slots EXCEPT ![w] = Head(iWaitingTasks[Victim(w)]).task],
          queues |-> [iWaitingTasks EXCEPT ![Victim(w)] = Tail(@)],
          goneIdle |-> TRUE]
    ELSE \* nothing to do: thread_gone_idle()
         [slots |-> slots, queues |-> iWaitingTasks, goneIdle |-> TRUE]

\* (mutant of ComputeIdle) the scan stops at the first idle worker
ComputeIdleAnyWorker(slots, queues) ==
    \E w \in Workers : slots[w] = NoTask /\ queues[w] = << >>

\* the value thread_pool::update_idle() computes
ComputeIdle(slots, queues) ==
    \A w \in Workers : slots[w] = NoTask /\ queues[w] = << >>

\* the client inside add(): next_task(), then thread_gone_busy() /
\* thread_gone_idle(): update_idle(), the notify_one of thread_gone_idle(),
\* and the release of the pool mutex as start returns
NextTask ==
    /\ iMutex # NoThread
    /\ section.step = "next_task"
    /\ ~Active(section.w)
    /\ LET after == AfterNextTask(section.w, iActiveTask)
       IN /\ iActiveTask' = after.slots
          /\ iWaitingTasks' = after.queues
          /\ iIdle' = ComputeIdle(after.slots, after.queues)
          /\ \E pcs \in (IF after.goneIdle THEN NotifyOne(cpc) ELSE { cpc }) :
                cpc' = [pcs EXCEPT ![iMutex] = "started"]
    /\ iMutex' = NoThread
    /\ section' = NoSection
    /\ UNCHANGED << iThreads, wStopped, wpc, iStopped, carg, taskVars >>
    /\ UNCHANGED << capVars, evVars >>

(***************************************************************************)
(* The submitter after start returned: it may call cancel() on its task at *)
(* once, while the worker threads go on.                                   *)
(***************************************************************************)
CancelTime(t) == IF outcome[t] # "none" THEN "after_check" ELSE "before_check"

\* i_task::cancel(): the flag is set
CancelAtOnce(c) ==
    /\ cpc[c] = "started"
    /\ cpc' = [cpc EXCEPT ![c] = "idle"]
    /\ carg' = [carg EXCEPT ![c] = NoArg]
    /\ iCancelled' = [iCancelled EXCEPT ![carg[c].task] = TRUE]
    /\ cancelWhen' = [cancelWhen EXCEPT ![carg[c].task] = CancelTime(carg[c].task)]
    /\ UNCHANGED << workerVars, iIdle, iStopped, iMutex, section, nextTask,
                    outcome, future >>
    /\ UNCHANGED << capVars, evVars >>

StartReturn(c) ==
    /\ cpc[c] = "started"
    /\ cpc' = [cpc EXCEPT ![c] = "idle"]
    /\ carg' = [carg EXCEPT ![c] = NoArg]
    /\ UNCHANGED << workerVars, iIdle, iStopped, iMutex, section, taskVars >>
    /\ UNCHANGED << capVars, evVars >>

(***************************************************************************)
(* thread_pool_thread::exec(), the worker thread.                          *)
(***************************************************************************)
\* the condition variable lets the thread go on once it has an active task or
\* is stopped; a stopped thread returns, otherwise the task is run unless it
\* is cancelled
WorkerDispatch(w) ==
    /\ w \in Workers
    /\ wpc[w] = "wait"
    /\ Active(w) \/ wStopped[w]
    /\ IF wStopped[w]
       THEN /\ wpc' = [wpc EXCEPT ![w] = "exited"]
            /\ UNCHANGED outcome
       ELSE IF MayRun(iActiveTask[w])
       THEN /\ wpc' = [wpc EXCEPT ![w] = "run"]
            /\ outcome' = [outcome EXCEPT ![iActiveTask[w]] = "running"]
       ELSE /\ wpc' = [wpc EXCEPT ![w] = "finish"]
            /\ outcome' = [outcome EXCEPT ![iActiveTask[w]] = "skipped"]
    /\ UNCHANGED << iThreads, iWaitingTasks, iActiveTask, wStopped, iIdle, iStopped, iMutex,
                    section, cpc, carg, nextTask, iCancelled, future, cancelWhen >>
    /\ UNCHANGED << capVars, evVars >>

\* i_task::run() returns; the task signals its future
RunReturns(w) ==
    /\ w \in Workers
    /\ wpc[w] = "run"
    /\ wpc' = [wpc EXCEPT ![w] = "finish"]
    /\ outcome' = [outcome EXCEPT ![iActiveTask[w]] = "run"]
    /\ future' = [future EXCEPT ![iActiveTask[w]] = TRUE]
    /\ UNCHANGED << iThreads, iWaitingTasks, iActiveTask, wStopped, iIdle, iStopped, iMutex,
                    section, cpc, carg, nextTask, iCancelled, cancelWhen >>
    /\ UNCHANGED << capVars, evVars >>

\* (mutant of Release) the slot is cleared and next_task() is not called
ReleaseOnly(w) ==
    /\ w \in Workers
    /\ wpc[w] = "finish"
    /\ iMutex = NoThread
    /\ iActiveTask' = [iActiveTask EXCEPT ![w] = NoTask]
    /\ wpc' = [wpc EXCEPT ![w] = "wait"]
    /\ UNCHANGED << iThreads, iWaitingTasks, wStopped, iIdle, iStopped, iMutex, section,
                    cpc, carg, taskVars >>
    /\ UNCHANGED << capVars, evVars >>

\* the end of the loop of exec(): the pool mutex is taken, release() clears
\* the active slot and next_task() follows under the same lock, with its
\* update_idle() and notify_one; no other thread reads the slots or the queues
\* without the pool mutex, and the idle flag is written once, at the end
Release(w) ==
    /\ w \in Workers
    /\ wpc[w] = "finish"
    /\ iMutex = NoThread
    /\ LET after == AfterNextTask(w, [iActiveTask EXCEPT ![w] = NoTask])
       IN /\ iActiveTask' = after.slots
          /\ iWaitingTasks' = after.queues
          /\ iIdle' = ComputeIdle(after.slots, after.queues)
          /\ cpc' \in (IF after.goneIdle THEN NotifyOne(cpc) ELSE { cpc })
    /\ wpc' = [wpc EXCEPT ![w] = "wait"]
    /\ UNCHANGED << iThreads, wStopped, iStopped, iMutex, section, carg, taskVars >>
    /\ UNCHANGED << capVars, evVars >>

(***************************************************************************)
(* thread_pool::wait()                                                     *)
(***************************************************************************)
\* "if (stopped() || idle()) return;", read without any lock
WaitCall(c) ==
    /\ cpc[c] = "idle"
    /\ ~(iStopped \/ iIdle)
    /\ cpc' = [cpc EXCEPT ![c] = "w_lock"]
    /\ UNCHANGED << workerVars, iIdle, iStopped, iMutex, section, carg, taskVars >>
    /\ UNCHANGED << capVars, evVars >>

\* iWaitConditionVariable.wait(lk, pred): under iWaitMutex the predicate is
\* read; the thread returns when it holds and blocks otherwise
WaitCheck(c) ==
    /\ cpc[c] = "w_lock"
    /\ IF iStopped \/ iIdle
       THEN cpc' = [cpc EXCEPT ![c] = "idle"]
       ELSE cpc' = [cpc EXCEPT ![c] = "w_blocked"]
    /\ UNCHANGED << workerVars, iIdle, iStopped, iMutex, section, carg, taskVars >>
    /\ UNCHANGED << capVars, evVars >>

(***************************************************************************)
(* thread_pool::stop()                                                     *)
(***************************************************************************)
StopCall(c) ==
    /\ cpc[c] = "idle"
    /\ ~iStopped
    /\ cpc' = [cpc EXCEPT ![c] = "stop_worker"]
    /\ carg' = [carg EXCEPT ![c] = [NoArg EXCEPT !.worker = 1]]
    /\ UNCHANGED << workerVars, iIdle, iStopped, iMutex, section, taskVars >>
    /\ UNCHANGED << capVars, evVars >>

\* thread_pool_thread::stop(): the flag is set and the thread is notified; a
\* worker already stopped is passed over
StopWorker(c) ==
    /\ cpc[c] = "stop_worker"
    /\ LET w == carg[c].worker
       IN IF wStopped[w]
          THEN /\ IF w = iThreads
                  THEN cpc' = [cpc EXCEPT ![c] = "stop_finish"] /\ carg' = [carg EXCEPT ![c] = NoArg]
                  ELSE carg' = [carg EXCEPT ![c].worker = w + 1] /\ UNCHANGED cpc
               /\ UNCHANGED wStopped
          ELSE /\ wStopped' = [wStopped EXCEPT ![w] = TRUE]
               /\ cpc' = [cpc EXCEPT ![c] = "stop_join"]
               /\ UNCHANGED carg
    /\ UNCHANGED << iThreads, iWaitingTasks, iActiveTask, wpc, iIdle, iStopped, iMutex,
                    section, taskVars >>
    /\ UNCHANGED << capVars, evVars >>

\* thread::wait(): the worker thread has returned from exec()
StopJoin(c) ==
    /\ cpc[c] = "stop_join"
    /\ wpc[carg[c].worker] = "exited"
    /\ IF carg[c].worker = iThreads
       THEN cpc' = [cpc EXCEPT ![c] = "stop_finish"] /\ carg' = [carg EXCEPT ![c] = NoArg]
       ELSE carg' = [carg EXCEPT ![c].worker = @ + 1]
            /\ cpc' = [cpc EXCEPT ![c] = "stop_worker"]
    /\ UNCHANGED << workerVars, iIdle, iStopped, iMutex, section, taskVars >>
    /\ UNCHANGED << capVars, evVars >>

\* iStopped is set under iWaitMutex, then iWaitConditionVariable.notify_one()
StopFinish(c) ==
    /\ cpc[c] = "stop_finish"
    /\ iStopped' = TRUE
    /\ \E pcs \in NotifyOne(cpc) : cpc' = [pcs EXCEPT ![c] = "idle"]
    /\ UNCHANGED << workerVars, iIdle, iMutex, section, carg, taskVars >>
    /\ UNCHANGED << capVars, evVars >>

StartStep(c) == StartAdd(c) \/ CancelAtOnce(c) \/ StartReturn(c)

StopStep(c) == StopWorker(c) \/ StopJoin(c) \/ StopFinish(c)

WorkerStep(w) == WorkerDispatch(w) \/ RunReturns(w) \/ Release(w)

\* The pool without stop(): start (and run), cancel and wait.
PoolRunNext ==
    \/ \E c \in Clients : \E p \in Priorities : StartCall(c, p)
    \/ \E c \in Clients : StartAdd(c) \/ CancelAtOnce(c) \/ StartReturn(c)
    \/ \E c \in Clients : WaitCall(c) \/ WaitCheck(c)
    \/ \E w \in WorkerIds : WorkerDispatch(w) \/ RunReturns(w) \/ Release(w)
    \/ NextTask

(***************************************************************************)
(* thread_pool::reserve() and thread_pool::try_start()                     *)
(***************************************************************************)
\* the sizes handed to reserve
ReserveSizes == {1, 2}

\* a client is inside stop(), which walks iThreads without the pool mutex
Stopping == \E c \in Clients : cpc[c] \in {"stop_worker", "stop_join", "stop_finish"}

\* reserve(aMaxThreads), under the pool mutex: iMaxThreads is set, and worker
\* threads are created while there are fewer than iMaxThreads; the calls made
\* while stop() walks iThreads are left out
Reserve(c, aMaxThreads) ==
    /\ cpc[c] = "idle"
    /\ iMutex = NoThread
    /\ ~Stopping
    /\ iMaxThreads' = aMaxThreads
    /\ iThreads' = IF iThreads < aMaxThreads THEN aMaxThreads ELSE iThreads
    /\ UNCHANGED << iWaitingTasks, iActiveTask, wStopped, wpc, iIdle, iStopped, iMutex,
                    section, cpc, carg, taskVars, tried >>
    /\ UNCHANGED evVars

\* "available_threads() == 0": max_threads() - active_threads() is computed
\* in std::size_t, where the difference is 0 exactly when the two are equal;
\* with more active threads than max_threads it wraps to a large value
NoneAvailable == iMaxThreads = Cardinality({ w \in Workers : Active(w) })

\* try_start: "if (stopped()) return false;"
TryStartCall(c, p) ==
    /\ cpc[c] = "idle"
    /\ nextTask <= MaxTasks
    /\ nextTask' = nextTask + 1
    /\ IF iStopped
       THEN /\ tried' = [tried EXCEPT ![nextTask] = "false"]
            /\ UNCHANGED << cpc, carg >>
       ELSE /\ cpc' = [cpc EXCEPT ![c] = "try_available"]
            /\ carg' = [carg EXCEPT ![c] = [task |-> nextTask, priority |-> p, worker |-> 0]]
            /\ UNCHANGED tried
    /\ UNCHANGED << workerVars, iMaxThreads, iIdle, iStopped, iMutex, section, iCancelled,
                    outcome, future, cancelWhen >>
    /\ UNCHANGED evVars

\* "if (available_threads() == 0) return false;", the count taken under the
\* pool mutex, which is released before start() is called
TryAvailable(c) ==
    /\ cpc[c] = "try_available"
    /\ iMutex = NoThread
    /\ IF NoneAvailable
       THEN /\ tried' = [tried EXCEPT ![carg[c].task] = "false"]
            /\ cpc' = [cpc EXCEPT ![c] = "idle"]
            /\ carg' = [carg EXCEPT ![c] = NoArg]
       ELSE /\ tried' = [tried EXCEPT ![carg[c].task] = "true"]
            /\ cpc' = [cpc EXCEPT ![c] = "try_start"]
            /\ UNCHANGED carg
    /\ UNCHANGED << workerVars, iMaxThreads, iIdle, iStopped, iMutex, section, taskVars >>
    /\ UNCHANGED evVars

\* "start(aTask, aPriority); return true;": start() reads stopped() again
\* and returns at once in a stopped pool
TryStart(c) ==
    /\ cpc[c] = "try_start"
    /\ IF iStopped
       THEN /\ cpc' = [cpc EXCEPT ![c] = "idle"]
            /\ carg' = [carg EXCEPT ![c] = NoArg]
       ELSE /\ cpc' = [cpc EXCEPT ![c] = "start_lock"]
            /\ UNCHANGED carg
    /\ UNCHANGED << workerVars, iIdle, iStopped, iMutex, section, taskVars, capVars >>
    /\ UNCHANGED evVars

(***************************************************************************)
(* The mutexes of the pool: the recursive pool mutex, iCondVarMutex of     *)
(* each worker and iWaitMutex.  A call is the sequence of lock and unlock  *)
(* operations of one path through its code; which path is taken depends on *)
(* the queues and slots and is left open.                                  *)
(***************************************************************************)
\* (mutant of LockPrograms) a wait() that calls update_idle() while it holds
\* the wait mutex, beside the update_idle() of a worker thread
LockProgramsWaitUpdates(th) ==
    IF th \in WorkerIds
    THEN { << [op |-> "lock", m |-> "pool"], [op |-> "lock", m |-> "wait"],
              [op |-> "unlock", m |-> "wait"], [op |-> "unlock", m |-> "pool"] >> }
    ELSE { << [op |-> "lock", m |-> "wait"], [op |-> "lock", m |-> "pool"],
              [op |-> "unlock", m |-> "pool"], [op |-> "unlock", m |-> "wait"] >> }

\* the paths of the calls thread th may make: a worker thread runs one turn
\* of the loop of exec(), the client calls start (or run), try_start, wait or
\* active_threads
LockPrograms(th) ==
    LET Lock(m, body) == << [op |-> "lock", m |-> m] >> \o body \o << [op |-> "unlock", m |-> m] >>
        Cond(w) == IF w = 1 THEN "cond1" ELSE "cond2"
        active(w) == Lock(Cond(w), << >>)
        idle(w) == Lock("pool", Lock(Cond(w), << >>))
        \* update_idle(): the scan ends at the first worker that is not idle
        update_idle == { Lock("pool", idle(1) \o Lock("wait", << >>)),
                         Lock("pool", idle(1) \o idle(2) \o Lock("wait", << >>)) }
        \* next_task() of a worker whose queue is not empty
        promote(w) == { Lock("pool", active(w) \o Lock(Cond(w), << >>) \o u) : u \in update_idle }
        add(w) == { Lock("pool", active(w)) }
                  \cup { Lock("pool", active(w) \o n) : n \in promote(w) }
        \* thread_pool::steal_work and the peer's steal_work, which adds to w
        steal_work(w) == { Lock("pool", Lock("pool", << >>)) }
                         \cup { Lock("pool", Lock("pool", a)) : a \in add(w) }
        next_task(w) == promote(w)
                        \cup { Lock("pool", active(w) \o st \o u) :
                                 st \in steal_work(w), u \in update_idle }
        \* the wait on the condition variable, then release() and next_task()
        exec(w) == { Lock(Cond(w), << >>) \o Lock("pool", Lock(Cond(w), << >>) \o n) :
                       n \in next_task(w) }
        start == { Lock("pool", active(1) \o a) : a \in add(1) }
                 \cup { Lock("pool", active(1) \o active(2) \o a) : a \in add(1) \cup add(2) }
        active_threads == Lock("pool", active(1) \o active(2))
        available_threads == Lock("pool", active_threads)
        try_start == { available_threads } \cup { available_threads \o st : st \in start }
        wait == Lock("wait", << >>)
    IN IF th \in WorkerIds
       THEN exec(th)
       ELSE start \cup try_start \cup { wait, active_threads }

\* the thread begins a call
LockCall(th) ==
    /\ lk.prog[th] = << >>
    /\ \E p \in LockPrograms(th) : lk' = [lk EXCEPT !.prog[th] = p]
    /\ UNCHANGED << lhs, rhs, compared, filterCount, tx, tDepth, limiters,
                    poolVars, evCore, dlvVars, hdlVars >>

\* the thread locks or unlocks the next mutex of its call: a mutex is locked
\* when no other thread holds it, and only the recursive pool mutex can be
\* locked again by the thread that holds it
LockStep(th) ==
    /\ lk.prog[th] # << >>
    /\ LET i == Head(lk.prog[th])
           holds(u) == \E k \in 1..Len(lk.held[u]) : lk.held[u][k] = i.m
       IN IF i.op = "lock"
          THEN /\ \A u \in LockThreads \ {th} : ~holds(u)
               /\ i.m = "pool" \/ ~holds(th)
               /\ lk' = [lk EXCEPT !.prog[th] = Tail(@), !.held[th] = Append(@, i.m)]
          ELSE lk' = [lk EXCEPT !.prog[th] = Tail(@),
                                !.held[th] = SubSeq(@, 1, Len(@) - 1)]
    /\ UNCHANGED << lhs, rhs, compared, filterCount, tx, tDepth, limiters,
                    poolVars, evCore, dlvVars, hdlVars >>

(***************************************************************************)
(* The event (event.hpp): one event<Args...>, its handler list and its     *)
(* acceptance contexts, used by the threads of EvThreads.  A thread runs   *)
(* user code when it is outside every call or inside a handler; it then    *)
(* holds no lock, and each operation it calls takes event_mutex().         *)
(***************************************************************************)
\* a sync_trigger / async_trigger call in progress: its locals triggerId,
\* handlerIndex and the flag saved by scoped_flag; done, again, want and
\* atStart are history: the handlers this call dispatched, those it dispatched
\* more than once, whether the handler it runs called accept() (and not
\* ignore()), and the handlers subscribed when the call started
TriggerFrame(kind, id, saved) ==
    [kind |-> kind, triggerId |-> id, handlerIndex |-> 0, saved |-> saved,
     done |-> {}, again |-> {}, want |-> FALSE, cookie |-> 0,
     atStart |-> { handlers[i].cookie : i \in 1..Len(handlers) }, args |-> 0]

\* a handler invoked inline by enqueue()
HandlerFrame(c) ==
    [kind |-> "handler", triggerId |-> 0, handlerIndex |-> 0, saved |-> FALSE,
     done |-> {}, again |-> {}, want |-> FALSE, cookie |-> c, atStart |-> {},
     args |-> 0]

Top(t) == stack[t][Len(stack[t])]

InHandler(t) == stack[t] # << >> /\ Top(t).kind = "handler"

InTrigger(t) == stack[t] # << >> /\ Top(t).kind # "handler"

\* the thread runs user code and may call into the event
UserCode(t) ==
    /\ stack[t] = << >> \/ InHandler(t)
    /\ evMutex = NoThread
    /\ ~queueDestroyed[t]

\* the number of trigger calls the thread is in
Depth(t) == Cardinality({ i \in 1..Len(stack[t]) : stack[t][i].kind # "handler" })

Front(q) == SubSeq(q, 1, Len(q) - 1)

HasHandler(c) == \E i \in 1..Len(handlers) : handlers[i].cookie = c

\* find_handler(): the position of the handler with this cookie
FindHandler(c) == CHOOSE i \in 1..Len(handlers) : handlers[i].cookie = c

\* the contexts as invalidate_handler_list() leaves them
InvalidateContexts ==
    [i \in 1..Len(contexts) |-> [contexts[i] EXCEPT !.handlersChanged = TRUE]]

EventInit ==
    /\ handlers = << >>
    /\ contexts = << >>
    /\ triggering = FALSE
    /\ triggerId = 0
    /\ handlersChanged = FALSE
    /\ iNextCookie = 0
    /\ evMutex = NoThread
    /\ stack = [t \in EvThreads |-> << >>]
    /\ evQueue = [t \in EvThreads |-> << >>]
    /\ lastReturn = [t \in EvThreads |-> [value |-> TRUE, wanted |-> FALSE]]
    /\ lastAccept = [by |-> << 0, 0 >>, marked |-> << 0, 0 >>]
    /\ triggerType = "Default"
    /\ ignoreErrors = FALSE
    /\ lastError = [t \in EvThreads |-> "none"]
    /\ queueDestroyed = [t \in EvThreads |-> FALSE]
    /\ lastCall = [t \in EvThreads |-> << >>]
    /\ handles = << >>
    /\ referenceCount = [c \in Cookies |-> 0]
    /\ iControl = [made |-> FALSE, iEvent |-> FALSE, iRefCount |-> 0, deleted |-> 0]
    /\ destroyed = FALSE
    /\ raised = "none"
    /\ filterCount = 0

\* a handler list with the new handler put first
EmplaceFront(hs, h) == << h >> \o hs

\* "instance().handlers.emplace_back(id, handler{ ... })"
EmplaceBackHandler(hs, h) == Append(hs, h)

RECURSIVE EraseAndStep(_, _, _)
RECURSIVE EraseClient(_, _, _)

\* "const void* aUniqueId = nullptr": the client id of a subscriber that
\* passes none
NullClientId == 0

\* subscribe(aCallable, aUniqueId): the handler is appended, with the caller's
\* queue and the client id
SubscribeClient(t, aUniqueId) ==
    /\ UserCode(t)
    /\ iNextCookie < MaxCookie
    /\ handlersChanged' = TRUE
    /\ contexts' = InvalidateContexts
    /\ iNextCookie' = iNextCookie + 1
    /\ handlers' = EmplaceBackHandler(handlers, [cookie |-> iNextCookie + 1, queue |-> t,
                                                 same |-> FALSE, triggerId |-> 0,
                                                 stateless |-> "indeterminate",
                                                 clientId |-> aUniqueId])
    /\ UNCHANGED << triggering, triggerId, evMutex, stack, evQueue, lastReturn, lastAccept >>
    /\ UNCHANGED << poolVars, varVars, dlvVars, hdlVars >>

\* subscribe() by a subscriber of its own: its client id is that of no other
\* handler
Subscribe(t) == SubscribeClient(t, iNextCookie + 1)

\* an erase loop that steps on after erasing, past the handler that moved into
\* the erased place
EraseAndStep(hs, h, aClientId) ==
    IF h > Len(hs) THEN hs
    ELSE IF hs[h].clientId = aClientId
    THEN EraseAndStep(SubSeq(hs, 1, h - 1) \o SubSeq(hs, h + 1, Len(hs)), h + 1, aClientId)
    ELSE EraseAndStep(hs, h + 1, aClientId)

\* the loop of unsubscribe(aClientId) from position h on: "if clientId ==
\* aClientId then h = handlers.erase(h) else ++h"
EraseClient(hs, h, aClientId) ==
    IF h > Len(hs) THEN hs
    ELSE IF hs[h].clientId = aClientId
    THEN EraseClient(SubSeq(hs, 1, h - 1) \o SubSeq(hs, h + 1, Len(hs)), h, aClientId)
    ELSE EraseClient(hs, h + 1, aClientId)

\* unsubscribe(aClientId)
UnsubscribeClient(t, aClientId) ==
    /\ UserCode(t)
    /\ handlersChanged' = TRUE
    /\ contexts' = InvalidateContexts
    /\ handlers' = EraseClient(handlers, 1, aClientId)
    /\ UNCHANGED << triggering, triggerId, iNextCookie, evMutex, stack, evQueue,
                    lastReturn, lastAccept >>
    /\ UNCHANGED << poolVars, varVars, dlvVars, hdlVars >>

\* unsubscribe(aClientId) by the subscriber of a subscribed handler
Unsubscribe(t, c) ==
    /\ HasHandler(c)
    /\ UnsubscribeClient(t, handlers[FindHandler(c)].clientId)

\* accept(), called by a handler that a sync_trigger invoked:
\* contexts.back().accepted = true
Accept(t) ==
    /\ UserCode(t)
    /\ InHandler(t)
    /\ stack[t][Len(stack[t]) - 1].kind = "sync"
    /\ contexts' = [contexts EXCEPT ![Len(contexts)].accepted = TRUE]
    /\ stack' = [stack EXCEPT ![t][Len(stack[t]) - 1].want = TRUE]
    /\ lastAccept' = [by |-> << t, Len(stack[t]) - 1 >>,
                      marked |-> contexts[Len(contexts)].owner]
    /\ UNCHANGED << handlers, triggering, triggerId, handlersChanged, iNextCookie,
                    evMutex, evQueue, lastReturn >>
    /\ UNCHANGED << poolVars, varVars, dlvVars, hdlVars >>

\* ignore(): contexts.back().accepted = false
Ignore(t) ==
    /\ UserCode(t)
    /\ InHandler(t)
    /\ stack[t][Len(stack[t]) - 1].kind = "sync"
    /\ contexts' = [contexts EXCEPT ![Len(contexts)].accepted = FALSE]
    /\ stack' = [stack EXCEPT ![t][Len(stack[t]) - 1].want = FALSE]
    /\ UNCHANGED << handlers, triggering, triggerId, handlersChanged, iNextCookie,
                    evMutex, evQueue, lastReturn, lastAccept >>
    /\ UNCHANGED << poolVars, varVars, dlvVars, hdlVars >>

\* scoped_flag sf{ instance().triggering }: the flag once sf is constructed
ScopedFlag(flag) == TRUE

\* "if (!instance().triggering) { ... triggerId = 0; every handler's triggerId
\* = 0 }", after the scoped_flag: the handler list the trigger starts with
HandlersAtEntry ==
    IF ~ScopedFlag(triggering)
    THEN [i \in 1..Len(handlers) |-> [handlers[i] EXCEPT !.triggerId = 0]]
    ELSE handlers

\* "auto triggerId = ++instance().triggerId;"
TriggerIdAtEntry == (IF ~ScopedFlag(triggering) THEN 0 ELSE triggerId) + 1

\* the event of the model, and another event whose callbacks share the queues
ThisEvent == 1
OtherEvent == 2

\* the argument pack of an event<> is empty
NoArguments == 0

\* the value an event<int> is triggered with: the triggers pass 1, 2, ... in
\* turn (the event copies the value and never looks at it, so that distinct
\* values lose nothing and tell the triggers apart)
NextArguments == triggerId + 1

\* unqueue_event(*this): the pending callbacks of this event leave the queue
Unqueue(q) == SelectSeq(q, LAMBDA e : e.event # ThisEvent)

\* event::unqueue(), called first by a trigger of the given DontQueue type: it
\* works on async_event_queue::instance(), the queue of the calling thread
QueuesAfterUnqueue(t, type) ==
    IF triggerType = type THEN [evQueue EXCEPT ![t] = Unqueue(@)] ELSE evQueue

\* async_event_queue::enqueue(): the callback is appended; that of a stateless
\* handler replaces the previous entry when that one is of the same event and
\* the same callable
Enqueue(q, cb, aStatelessHandler) ==
    IF /\ aStatelessHandler
       /\ q # << >>
       /\ q[Len(q)].event = cb.event
       /\ q[Len(q)].cookie = cb.cookie
    THEN [q EXCEPT ![Len(q)] = cb]
    ELSE Append(q, cb)

\* a read of handlerIsStateless that handler_is_stateless() has no effect on
StatelessNeverSet(h) == BOOLEAN

\* what handlerIsStateless can be read as: the handler's constructor leaves
\* the member uninitialised, handler_is_stateless() sets it
StatelessValues(h) == IF h.stateless = "set" THEN {TRUE} ELSE BOOLEAN

\* sync_trigger(), up to the dispatch loop: nothing to do without handlers;
\* otherwise the lock is taken, a context is pushed and the trigger id drawn
SyncTriggerWith(t, a) ==
    /\ UserCode(t)
    /\ Depth(t) < MaxDepth
    /\ evQueue' = QueuesAfterUnqueue(t, "SynchronousDontQueue")
    /\ IF handlers = << >>
       THEN /\ lastReturn' = [lastReturn EXCEPT ![t] = [value |-> TRUE, wanted |-> FALSE]]
            /\ UNCHANGED << handlers, contexts, triggering, triggerId, evMutex, stack >>
       ELSE /\ triggerId < MaxTriggerId
            /\ evMutex' = t
            /\ contexts' = Append(contexts, [accepted |-> FALSE, handlersChanged |-> FALSE,
                                             owner |-> << t, Len(stack[t]) + 1 >>])
            /\ triggering' = ScopedFlag(triggering)
            /\ handlers' = HandlersAtEntry
            /\ triggerId' = TriggerIdAtEntry
            /\ stack' = [stack EXCEPT ![t] =
                            Append(@, [TriggerFrame("sync", TriggerIdAtEntry, triggering)
                                          EXCEPT !.args = a])]
            /\ UNCHANGED lastReturn
    /\ UNCHANGED << handlersChanged, iNextCookie, lastAccept >>
    /\ UNCHANGED << poolVars, varVars, dlvVars, hdlVars >>

\* the filters installed for the event
MaxFilters == 1
\* the contexts the model lets the event's stack hold
MaxContexts == 3

\* filter_added(): "++instance().filterCount", called by the filter registry
\* when a filter is installed for the event
FilterAdded(t) ==
    /\ UserCode(t)
    /\ stack[t] = << >>
    /\ filterCount < MaxFilters
    /\ filterCount' = filterCount + 1
    /\ UNCHANGED << lhs, rhs, compared, tx, lk, tDepth, limiters,
                    poolVars, evCore, dlvVars, hdlVars >>

\* filter_removed(): "--instance().filterCount"
FilterRemoved(t) ==
    /\ UserCode(t)
    /\ stack[t] = << >>
    /\ filterCount > 0
    /\ filterCount' = filterCount - 1
    /\ UNCHANGED << lhs, rhs, compared, tx, lk, tDepth, limiters,
                    poolVars, evCore, dlvVars, hdlVars >>

\* sync_trigger() of a filtered event, up to the dispatch loop: the context is
\* pushed and the filters run, one of which may accept the event
\* (aAccepted); "if (contexts.back().accepted) { pop_context(); return
\* false; }", then "if (instance().handlers.empty()) return true;", then the
\* part that is the same without filters
SyncTriggerFiltered(t, a, aAccepted) ==
    /\ filterCount > 0
    /\ Len(contexts) < MaxContexts
    /\ IF aAccepted
       THEN /\ UserCode(t)
            /\ evQueue' = QueuesAfterUnqueue(t, "SynchronousDontQueue")
            /\ lastReturn' = [lastReturn EXCEPT ![t] = [value |-> FALSE, wanted |-> TRUE]]
            /\ UNCHANGED << handlers, contexts, triggering, triggerId, handlersChanged,
                            iNextCookie, evMutex, stack, lastAccept >>
            /\ UNCHANGED << poolVars, varVars, dlvVars, hdlVars >>
       ELSE IF handlers = << >>
       THEN /\ UserCode(t)
            /\ evQueue' = QueuesAfterUnqueue(t, "SynchronousDontQueue")
            /\ contexts' = Append(contexts, [accepted |-> FALSE, handlersChanged |-> FALSE,
                                             owner |-> << t, Len(stack[t]) + 1 >>])
            /\ lastReturn' = [lastReturn EXCEPT ![t] = [value |-> TRUE, wanted |-> FALSE]]
            /\ UNCHANGED << handlers, triggering, triggerId, handlersChanged,
                            iNextCookie, evMutex, stack, lastAccept >>
            /\ UNCHANGED << poolVars, varVars, dlvVars, hdlVars >>
       ELSE SyncTriggerWith(t, a)

\* sync_trigger() of an event<>
SyncTrigger(t) == SyncTriggerWith(t, NoArguments)

\* async_trigger(), up to the dispatch loop; aViaTrigger: called by trigger(),
\* which returns true after it
AsyncTriggerWith(t, a, aViaTrigger) ==
    /\ UserCode(t)
    /\ evQueue' = QueuesAfterUnqueue(t, "AsynchronousDontQueue")
    /\ IF handlers = << >>
       THEN /\ aViaTrigger
            /\ lastReturn' = [lastReturn EXCEPT ![t] = [value |-> TRUE, wanted |-> FALSE]]
            /\ UNCHANGED << handlers, triggering, triggerId, evMutex, stack >>
       ELSE /\ triggerId < MaxTriggerId
            /\ evMutex' = t
            /\ triggering' = ScopedFlag(triggering)
            /\ handlers' = HandlersAtEntry
            /\ triggerId' = TriggerIdAtEntry
            /\ stack' = [stack EXCEPT ![t] =
                            Append(@, [TriggerFrame(IF aViaTrigger THEN "trigger" ELSE "async",
                                                    TriggerIdAtEntry, triggering)
                                          EXCEPT !.args = a])]
            /\ UNCHANGED lastReturn
    /\ UNCHANGED << contexts, handlersChanged, iNextCookie, lastAccept >>
    /\ UNCHANGED << poolVars, varVars, dlvVars, hdlVars >>

\* async_trigger() of an event<>
AsyncTrigger(t) == AsyncTriggerWith(t, NoArguments, FALSE)

\* trigger(): sync_trigger or async_trigger, by the trigger type
Trigger(t, a) ==
    IF triggerType \in {"Asynchronous", "AsynchronousDontQueue"}
    THEN AsyncTriggerWith(t, a, TRUE)
    ELSE SyncTriggerWith(t, a)

\* the trigger call with frame f returns aValue to the code below it: a
\* sync_trigger pops the back context, sf restores the flag, the lock goes
TriggerReturn(t, below, f, aValue) ==
    /\ stack' = [stack EXCEPT ![t] = below]
    /\ contexts' = IF f.kind = "sync" THEN Front(contexts) ELSE contexts
    /\ triggering' = f.saved
    /\ evMutex' = NoThread
    /\ lastReturn' = IF f.kind = "sync"
                     THEN [lastReturn EXCEPT ![t] = [value |-> aValue, wanted |-> f.want]]
                     ELSE IF f.kind = "trigger"
                     THEN [lastReturn EXCEPT ![t] = [value |-> TRUE, wanted |-> FALSE]]
                     ELSE lastReturn

\* (mutant of TriggerThrows) a sync_trigger that rethrows without pop_context()
TriggerThrowsKeepsContext(t, below, f) ==
    /\ stack' = [stack EXCEPT ![t] = below]
    /\ contexts' = contexts
    /\ triggering' = f.saved
    /\ evMutex' = NoThread
    /\ lastError' = [lastError EXCEPT ![t] = "event_queue_destroyed"]
    /\ UNCHANGED lastReturn

\* enqueue() throws event_queue_destroyed: sync_trigger pops the context and
\* rethrows, sf restores the flag, the lock goes
TriggerThrows(t, below, f) ==
    /\ stack' = [stack EXCEPT ![t] = below]
    /\ contexts' = IF f.kind = "sync" THEN Front(contexts) ELSE contexts
    /\ triggering' = f.saved
    /\ evMutex' = NoThread
    /\ lastError' = [lastError EXCEPT ![t] = "event_queue_destroyed"]
    /\ UNCHANGED lastReturn

\* the loop body after enqueue() returned: a sync_trigger whose back context
\* is accepted returns false; handlersChanged.exchange(false) restarts the scan
AfterEnqueue(t, below, f) ==
    IF f.kind = "sync" /\ contexts[Len(contexts)].accepted
    THEN /\ TriggerReturn(t, below, f, FALSE)
         /\ UNCHANGED handlersChanged
    ELSE /\ handlersChanged' = FALSE
         /\ stack' = [stack EXCEPT ![t] =
                         Append(below, [f EXCEPT !.handlerIndex = IF handlersChanged THEN 0 ELSE @])]
         /\ evMutex' = t
         /\ UNCHANGED << contexts, triggering, lastReturn >>

\* an enqueue() that overlooks aAsync
CallsInlineAlsoAsync(f, h, t) ==
    h.same \/ (~queueDestroyed[h.queue] /\ h.queue = t)

\* enqueue() calls the handler inline: a sync trigger of a handler that is
\* tagged same-thread or whose queue is the emitter's
CallsInline(f, h, t) ==
    f.kind = "sync" /\ (h.same \/ (~queueDestroyed[h.queue] /\ h.queue = t))

\* the queue enqueue() puts the callback on otherwise
TargetQueue(h, t) == IF h.same THEN t ELSE h.queue

\* one turn of the dispatch loop of sync_trigger / async_trigger
TriggerLoop(t) ==
    /\ InTrigger(t)
    /\ LET f == Top(t)
           below == Front(stack[t])
       IN IF f.handlerIndex >= Len(handlers)
          THEN /\ TriggerReturn(t, below, f, TRUE)
               /\ UNCHANGED << handlers, handlersChanged, evQueue, lastError >>
          ELSE LET h == handlers[f.handlerIndex + 1]
                   g == [f EXCEPT !.handlerIndex = @ + 1]
                   d == [g EXCEPT !.done = @ \cup {h.cookie},
                                  !.again = @ \cup (f.done \cap {h.cookie})]
                   cb == [event |-> ThisEvent, cookie |-> h.cookie, args |-> f.args]
               IN IF h.triggerId = f.triggerId
                  THEN \* already dispatched by this trigger: continue
                       /\ stack' = [stack EXCEPT ![t] = Append(below, g)]
                       /\ UNCHANGED << handlers, contexts, triggering, handlersChanged,
                                       evMutex, evQueue, lastReturn, lastError >>
                  ELSE /\ handlers' = IF h.triggerId < f.triggerId
                                      THEN [handlers EXCEPT ![f.handlerIndex + 1].triggerId = f.triggerId]
                                      ELSE handlers
                       /\ IF CallsInline(f, h, t)
                          THEN \* the lock is released around the call
                               /\ stack' = [stack EXCEPT ![t] =
                                               Append(Append(below, d), HandlerFrame(h.cookie))]
                               /\ evMutex' = NoThread
                               /\ UNCHANGED << contexts, triggering, handlersChanged,
                                               evQueue, lastReturn, lastError >>
                          ELSE IF h.same \/ ~queueDestroyed[h.queue]
                          THEN /\ \E aStateless \in StatelessValues(h) :
                                     evQueue' = [evQueue EXCEPT ![TargetQueue(h, t)] =
                                                    Enqueue(@, cb, aStateless)]
                               /\ AfterEnqueue(t, below, d)
                               /\ UNCHANGED lastError
                          ELSE IF ignoreErrors
                          THEN \* the handler gets nothing
                               /\ AfterEnqueue(t, below, d)
                               /\ UNCHANGED << evQueue, lastError >>
                          ELSE /\ TriggerThrows(t, below, d)
                               /\ UNCHANGED << evQueue, handlersChanged >>
    /\ UNCHANGED << triggerId, iNextCookie, lastAccept >>
    /\ UNCHANGED << poolVars, varVars, hdlVars, triggerType, ignoreErrors, queueDestroyed, lastCall >>

\* the handler returns: enqueue() takes the lock again and the loop goes on
HandlerReturn(t) ==
    /\ InHandler(t)
    /\ evMutex = NoThread
    /\ AfterEnqueue(t, Front(Front(stack[t])), stack[t][Len(stack[t]) - 1])
    /\ UNCHANGED << handlers, triggerId, iNextCookie, evQueue, lastAccept >>
    /\ UNCHANGED << poolVars, varVars, dlvVars, hdlVars >>

\* "~handle": handle_in_same_thread_as_emitter(cookie)
HandleInSameThreadAsEmitter(t, c) ==
    /\ UserCode(t)
    /\ HasHandler(c)
    /\ ~handlers[FindHandler(c)].same
    /\ handlers' = [handlers EXCEPT ![FindHandler(c)].same = TRUE]
    /\ UNCHANGED << contexts, triggering, triggerId, handlersChanged, iNextCookie,
                    evMutex, stack, evQueue, lastReturn, lastAccept >>
    /\ UNCHANGED << poolVars, varVars, dlvVars, hdlVars >>

\* "!handle": handler_is_stateless(cookie)
HandlerIsStateless(t, c) ==
    /\ UserCode(t)
    /\ HasHandler(c)
    /\ handlers[FindHandler(c)].stateless # "set"
    /\ handlers' = [handlers EXCEPT ![FindHandler(c)].stateless = "set"]
    /\ UNCHANGED << contexts, triggering, triggerId, handlersChanged, iNextCookie,
                    evMutex, stack, evQueue, lastReturn, lastAccept >>
    /\ UNCHANGED << poolVars, varVars, dlvVars, hdlVars >>

\* event_trigger_type
TriggerTypes ==
    {"Default", "Synchronous", "SynchronousDontQueue", "Asynchronous",
     "AsynchronousDontQueue"}

\* set_trigger_type(): the type of the event is set, once
SetTriggerType(t, aTriggerType) ==
    /\ UserCode(t)
    /\ triggerType = "Default"
    /\ aTriggerType # "Default"
    /\ triggerType' = aTriggerType
    /\ UNCHANGED << evCore, ignoreErrors, queueDestroyed, lastCall, lastError >>
    /\ UNCHANGED << poolVars, varVars, hdlVars >>

\* ignore_errors()
IgnoreErrors(t) ==
    /\ UserCode(t)
    /\ ~ignoreErrors
    /\ ignoreErrors' = TRUE
    /\ UNCHANGED << evCore, triggerType, queueDestroyed, lastCall, lastError >>
    /\ UNCHANGED << poolVars, varVars, hdlVars >>

\* async_event_queue::exec() on the thread's queue, called outside every
\* handler: the pending callbacks are invoked in the order of the queue
Exec(t) ==
    /\ UserCode(t)
    /\ stack[t] = << >>
    /\ evQueue[t] # << >>
    /\ lastCall' = [lastCall EXCEPT ![t] = evQueue[t]]
    /\ evQueue' = [evQueue EXCEPT ![t] = << >>]
    /\ UNCHANGED << handlers, contexts, triggering, triggerId, handlersChanged,
                    iNextCookie, evMutex, stack, lastReturn, lastAccept >>
    /\ UNCHANGED << triggerType, ignoreErrors, queueDestroyed, lastError >>
    /\ UNCHANGED << poolVars, varVars, hdlVars >>

\* exec() on the thread's queue, one of whose callbacks of this event reaches
\* a handler that calls accept(): "instance().contexts.back().accepted =
\* true" marks the back context, that of a sync_trigger in progress on
\* another thread; on an empty stack back() is undefined: the write goes to
\* memory that is no context, or the thread's run ends there
ExecAccept(t) ==
    /\ UserCode(t)
    /\ stack[t] = << >>
    /\ \E i \in 1..Len(evQueue[t]) : evQueue[t][i].event = ThisEvent
    /\ lastCall' = [lastCall EXCEPT ![t] = evQueue[t]]
    /\ evQueue' = [evQueue EXCEPT ![t] = << >>]
    /\ lastAccept' = [by |-> << t, 0 >>,
                      marked |-> IF contexts = << >> THEN << 0, 0 >>
                                 ELSE contexts[Len(contexts)].owner]
    /\ IF contexts = << >>
       THEN /\ UNCHANGED contexts
            /\ \E e \in {lastError[t], "undefined"} : lastError' = [lastError EXCEPT ![t] = e]
       ELSE /\ contexts' = [contexts EXCEPT ![Len(contexts)].accepted = TRUE]
            /\ UNCHANGED lastError
    /\ UNCHANGED << handlers, triggering, triggerId, handlersChanged,
                    iNextCookie, evMutex, stack, lastReturn >>
    /\ UNCHANGED << triggerType, ignoreErrors, queueDestroyed >>
    /\ UNCHANGED << poolVars, varVars, hdlVars >>

\* the thread ends: its async_event_queue is destroyed with what is pending
\* on it, and the destroyed_flag of every handler of that queue says so
ThreadExit(t) ==
    /\ UserCode(t)
    /\ stack[t] = << >>
    /\ queueDestroyed' = [queueDestroyed EXCEPT ![t] = TRUE]
    /\ evQueue' = [evQueue EXCEPT ![t] = << >>]
    /\ UNCHANGED << handlers, contexts, triggering, triggerId, handlersChanged,
                    iNextCookie, evMutex, stack, lastReturn, lastAccept >>
    /\ UNCHANGED << triggerType, ignoreErrors, lastCall, lastError >>
    /\ UNCHANGED << poolVars, varVars, hdlVars >>

\* the longest queue the model lets the other event make
MaxQueue == 2

\* the callbacks of the other event that are pending on a queue
OtherPending(q) == SelectSeq(q, LAMBDA e : e.event = OtherEvent)

\* a trigger of another event, whose handlers were subscribed on thread q,
\* enqueues a callback on q's queue; the cookie tells its callbacks apart
OtherEventEnqueue(q) ==
    /\ evMutex = NoThread
    /\ ~queueDestroyed[q]
    /\ Len(OtherPending(evQueue[q])) < MaxQueue
    /\ evQueue' = [evQueue EXCEPT ![q] =
                      Enqueue(@, [event |-> OtherEvent,
                                  cookie |-> Len(OtherPending(evQueue[q])) + 1,
                                  args |-> NoArguments], FALSE)]
    /\ UNCHANGED << handlers, contexts, triggering, triggerId, handlersChanged,
                    iNextCookie, evMutex, stack, lastReturn, lastAccept >>
    /\ UNCHANGED << poolVars, varVars, dlvVars, hdlVars >>

(***************************************************************************)
(* The simple variant (i_simple_variant.hpp): a value of one of seven      *)
(* types, and the comparison operators of two variants.                    *)
(***************************************************************************)
\* simple_variant_type (COUNT is not the type of a value)
VariantTypes == {"Empty", "Boolean", "Integer", "Real", "String", "Enum", "CustomType"}

EmptyVariant == [type |-> "Empty", value |-> 0, nan |-> FALSE]

\* the variants compared: one without value, two values of every other
\* type, and a Real that holds a NaN
Variants ==
    {EmptyVariant}
    \cup { [type |-> ty, value |-> v, nan |-> FALSE] :
             ty \in VariantTypes \ {"Empty"}, v \in {0, 1} }
    \cup { [type |-> "Real", value |-> 0, nan |-> TRUE] }

\* "get<T>(lhs) == get<T>(rhs)": a NaN is equal to nothing
ValueEqual(a, b) == ~a.nan /\ ~b.nan /\ a.value = b.value

\* what a comparison gives: the value returned, or the exception thrown
Returns(b) == IF b THEN "true" ELSE "false"

\* operator==(const i_simple_variant&, const i_simple_variant&)
OperatorEqual(a, b) ==
    IF a.type # b.type THEN Returns(FALSE)
    ELSE CASE a.type = "Empty" -> Returns(TRUE)
           [] a.type = "Boolean" -> Returns(ValueEqual(a, b))
           [] a.type = "Integer" -> Returns(ValueEqual(a, b))
           [] a.type = "Real" -> Returns(ValueEqual(a, b))
           [] a.type = "String" -> Returns(ValueEqual(a, b))
           [] a.type = "Enum" -> Returns(ValueEqual(a, b))
           [] a.type = "CustomType" -> Returns(ValueEqual(a, b))
           [] OTHER -> "unknown_type"

\* operator!=(const i_simple_variant&, const i_simple_variant&): the switch
\* has no case for Enum
OperatorNotEqual(a, b) ==
    IF a.type # b.type THEN Returns(TRUE)
    ELSE CASE a.type = "Empty" -> Returns(FALSE)
           [] a.type = "Boolean" -> Returns(~ValueEqual(a, b))
           [] a.type = "Integer" -> Returns(~ValueEqual(a, b))
           [] a.type = "Real" -> Returns(~ValueEqual(a, b))
           [] a.type = "String" -> Returns(~ValueEqual(a, b))
           [] a.type = "CustomType" -> Returns(~ValueEqual(a, b))
           [] OTHER -> "unknown_type"

\* "lhs == rhs" is evaluated
CompareEqual ==
    /\ compared.eq = "none"
    /\ compared' = [compared EXCEPT !.eq = OperatorEqual(lhs, rhs)]
    /\ UNCHANGED << lhs, rhs, filterCount, tx, lk, tDepth, limiters,
                    poolVars, evCore, dlvVars, hdlVars >>

\* "lhs != rhs" is evaluated
CompareNotEqual ==
    /\ compared.ne = "none"
    /\ compared' = [compared EXCEPT !.ne = OperatorNotEqual(lhs, rhs)]
    /\ UNCHANGED << lhs, rhs, filterCount, tx, lk, tDepth, limiters,
                    poolVars, evCore, dlvVars, hdlVars >>

\* no variant is compared in the specifications of the pool and of the event
Init ==
    /\ PoolInit
    /\ EventInit
    /\ lhs = EmptyVariant
    /\ rhs = EmptyVariant
    /\ compared = [eq |-> "none", ne |-> "none"]
    /\ tDepth = [t \in EvThreads |-> 0]
    /\ limiters = [t \in EvThreads |-> << >>]
    /\ tx = [handlers |-> << >>, aAsync |-> FALSE, handlerIndex |-> 0, transaction |-> 0,
             queues |-> [q \in EvThreads |-> << >>], ids |-> [q \in EvThreads |-> 0]]

\* Two variants, of any types and values, are compared.
VariantInit ==
    /\ PoolInit
    /\ EventInit
    /\ lhs \in Variants
    /\ rhs \in Variants
    /\ compared = [eq |-> "none", ne |-> "none"]
    /\ tDepth = [t \in EvThreads |-> 0]
    /\ limiters = [t \in EvThreads |-> << >>]
    /\ tx = [handlers |-> << >>, aAsync |-> FALSE, handlerIndex |-> 0, transaction |-> 0,
             queues |-> [q \in EvThreads |-> << >>], ids |-> [q \in EvThreads |-> 0]]

(***************************************************************************)
(* The async transaction of one trigger call: the dispatch loop of         *)
(* sync_trigger / async_trigger over a given handler list, called on       *)
(* thread 1 while nothing else uses the queues, and what enqueue() does    *)
(* with the local `transaction`.  0 stands for an empty optional.          *)
(***************************************************************************)
\* the longest handler list of such a call
MaxTxHandlers == 3

\* A trigger call, synchronous or not, of an event with one to MaxTxHandlers
\* handlers, each tagged same-thread or not and subscribed on either thread.
TransactionInit ==
    /\ PoolInit
    /\ EventInit
    /\ lhs = EmptyVariant
    /\ rhs = EmptyVariant
    /\ compared = [eq |-> "none", ne |-> "none"]
    /\ tDepth = [t \in EvThreads |-> 0]
    /\ limiters = [t \in EvThreads |-> << >>]
    /\ \E n \in 1..MaxTxHandlers :
          \E hs \in [1..n -> [same : BOOLEAN, queue : EvThreads]] :
             \E aAsync \in BOOLEAN :
                tx = [handlers |-> hs, aAsync |-> aAsync, handlerIndex |-> 0,
                      transaction |-> 0,
                      queues |-> [q \in EvThreads |-> << >>],
                      ids |-> [q \in EvThreads |-> 0]]

\* one turn of the dispatch loop: "transaction = enqueue(lock, handler,
\* aAsync, transaction, args)".  enqueue() returns its local `transaction`,
\* which is set only when the callback is put on a queue: an inline call
\* returns the empty optional.  async_event_queue::enqueue(ecb, stateless,
\* aTransaction) keeps the id handed to it when the tail of the queue carries
\* it and allocates the next id of the queue otherwise.
EnqueueTransaction ==
    /\ tx.handlerIndex < Len(tx.handlers)
    /\ LET h == tx.handlers[tx.handlerIndex + 1]
           emitterQueue == 1
           q == IF h.same THEN emitterQueue ELSE h.queue
           entries == tx.queues[q]
           reuse == /\ tx.transaction # 0
                    /\ entries # << >>
                    /\ entries[Len(entries)] = tx.transaction
           id == IF reuse THEN tx.transaction ELSE tx.ids[q] + 1
       IN IF ~tx.aAsync /\ (h.same \/ h.queue = emitterQueue)
          THEN tx' = [tx EXCEPT !.handlerIndex = @ + 1, !.transaction = 0]
          ELSE tx' = [tx EXCEPT !.handlerIndex = @ + 1,
                                !.transaction = id,
                                !.queues[q] = Append(@, id),
                                !.ids[q] = IF reuse THEN @ ELSE id]
    /\ UNCHANGED << lhs, rhs, compared, filterCount, lk, tDepth, limiters,
                    poolVars, evCore, dlvVars, hdlVars >>

(***************************************************************************)
(* recursion_limiter<Tag> (recursion_limiter.hpp): a scope object that     *)
(* counts the nesting of a function per thread.  The threads construct     *)
(* limiters and end their scopes, innermost first.                         *)
(***************************************************************************)
\* the values depth() is let to take
MaxLimiterDepth == 4
\* the largest maximum depth handed to the constructor (Tag::RecursionLimit
\* or aMaxDepth)
MaxRecursionLimit == 2

\* recursion_limiter(aMaxDepth): "if (++depth() > max_depth()) throw
\* too_deep();" -- the object of a constructor that throws never comes to
\* life, and its destructor is not run
LimiterConstruct(t, aMaxDepth) ==
    /\ tDepth[t] < MaxLimiterDepth
    /\ tDepth' = [tDepth EXCEPT ![t] = @ + 1]
    /\ limiters' = IF tDepth[t] + 1 > aMaxDepth
                   THEN limiters
                   ELSE [limiters EXCEPT ![t] = Append(@, aMaxDepth)]
    /\ UNCHANGED << lhs, rhs, compared, filterCount, tx, lk, poolVars, evCore, dlvVars, hdlVars >>

\* ~recursion_limiter(): "--depth();", as the innermost scope ends
LimiterDestroy(t) ==
    /\ limiters[t] # << >>
    /\ tDepth' = [tDepth EXCEPT ![t] = @ - 1]
    /\ limiters' = [limiters EXCEPT ![t] = SubSeq(@, 1, Len(@) - 1)]
    /\ UNCHANGED << lhs, rhs, compared, filterCount, tx, lk, poolVars, evCore, dlvVars, hdlVars >>

\* Two threads that nest limited scopes of one tag.
LimiterSpec ==
    Init /\ [][\E t \in EvThreads :
                  \/ \E aMaxDepth \in 1..MaxRecursionLimit : LimiterConstruct(t, aMaxDepth)
                  \/ LimiterDestroy(t)]_vars

TransactionSpec == TransactionInit /\ [][EnqueueTransaction]_vars

VariantSpec == VariantInit /\ [][CompareEqual \/ CompareNotEqual]_vars

PoolSpec ==
    /\ Init
    /\ [][\/ PoolRunNext
          \/ \E c \in Clients : StopCall(c) \/ StopWorker(c) \/ StopJoin(c) \/ StopFinish(c)]_vars

\* The worker threads and a client thread make their calls in any order.
LockSpec == Init /\ [][\E th \in LockThreads : LockCall(th) \/ LockStep(th)]_vars

\* Every thread that can take a step eventually takes one: the worker threads,
\* the owner of the pool mutex, and a client inside a call (a client need not
\* make another call).
PoolFairness ==
    /\ \A w \in WorkerIds : WF_vars(WorkerStep(w))
    /\ \A c \in Clients : WF_vars(StartStep(c) \/ WaitCheck(c) \/ StopStep(c))
    /\ WF_vars(NextTask)

PoolFairSpec == PoolSpec /\ PoolFairness

\* The same for a pool on which stop() is never called.
PoolRunFairSpec == Init /\ [][PoolRunNext]_vars /\ PoolFairness

\* The pool with reserve, start, try_start and stop.
\* The pool with reserve and try_start.
TrySpec ==
    /\ Init
    /\ [][\/ \E c \in Clients : \E n \in ReserveSizes : Reserve(c, n)
          \/ \E c \in Clients : \E p \in Priorities : StartCall(c, p) \/ TryStartCall(c, p)
          \/ \E c \in Clients : TryAvailable(c) \/ TryStart(c)
          \/ \E c \in Clients : StartAdd(c) \/ StartReturn(c)
          \/ \E w \in WorkerIds : WorkerDispatch(w) \/ RunReturns(w) \/ Release(w)
          \/ NextTask
          \/ \E c \in Clients : StopCall(c) \/ StopWorker(c) \/ StopJoin(c) \/ StopFinish(c)]_vars

\* A pool that grows: reserve and start, and the worker threads.
\* Every thread goes on while it can; no client need make another call.
GrowFairSpec ==
    /\ Init
    /\ [][\/ \E c \in Clients : \E n \in ReserveSizes : Reserve(c, n)
          \/ \E c \in Clients : \E p \in Priorities : StartCall(c, p)
          \/ \E c \in Clients : StartAdd(c) \/ StartReturn(c)
          \/ \E w \in WorkerIds : WorkerDispatch(w) \/ RunReturns(w) \/ Release(w)
          \/ NextTask]_vars
    /\ PoolFairness

\* The event and the threads that use it.
EventSpec ==
    /\ Init
    /\ [][\/ \E t \in EvThreads : Subscribe(t)
          \/ \E t \in EvThreads : \E c \in Cookies : Unsubscribe(t, c)
          \/ \E t \in EvThreads : Accept(t) \/ Ignore(t)
          \/ \E t \in EvThreads : SyncTrigger(t) \/ AsyncTrigger(t)
          \/ \E t \in EvThreads : TriggerLoop(t) \/ HandlerReturn(t)]_vars

\* no trigger call is in progress
Quiet == \A u \in EvThreads : stack[u] = << >>

\* An event<int> whose handlers are subscribed and tagged same-thread by two
\* threads, which set its trigger type, trigger it and end; the tags and the
\* settings are made while no trigger is in progress.
DeliverySpec ==
    /\ Init
    /\ [][\/ \E t \in EvThreads : Subscribe(t)
          \/ \E t \in EvThreads : \E c \in Cookies : Quiet /\ HandleInSameThreadAsEmitter(t, c)
          \/ \E t \in EvThreads : \E ty \in TriggerTypes : Quiet /\ SetTriggerType(t, ty)
          \/ \E t \in EvThreads : Quiet /\ IgnoreErrors(t)
          \/ \E t \in EvThreads : Trigger(t, NextArguments)
          \/ \E t \in EvThreads : TriggerLoop(t) \/ HandlerReturn(t)
          \/ \E t \in EvThreads : ThreadExit(t)]_vars

\* the number of handlers of the event in QueueSpec
MaxQueueCookie == 2

\* An event<int> with stateless handlers, and the queues of its two threads,
\* which also hold callbacks of another event; each thread drains its queue
\* once, and the other event is triggered before that.
QueueSpec ==
    /\ Init
    /\ [][\/ \E t \in EvThreads : iNextCookie < MaxQueueCookie /\ Subscribe(t)
          \/ \E t \in EvThreads : \E c \in Cookies : Quiet /\ triggerId = 0 /\ HandlerIsStateless(t, c)
          \/ \E t \in EvThreads : \E ty \in TriggerTypes : Quiet /\ triggerId = 0 /\ SetTriggerType(t, ty)
          \/ \E t \in EvThreads : Trigger(t, NextArguments)
          \/ \E t \in EvThreads : TriggerLoop(t) \/ HandlerReturn(t)
          \/ \E t \in EvThreads : Quiet /\ lastCall[t] = << >> /\ Exec(t)
          \/ \E q \in EvThreads : Quiet /\ lastCall[q] = << >> /\ OtherEventEnqueue(q)]_vars

\* An event with one handler, triggered synchronously and asynchronously by
\* two threads that also drain their queues; the handler may call accept()
\* or ignore() when it is called inline, and accept() when it is called from
\* the queue.
AcceptSpec ==
    /\ Init
    /\ [][\/ \E t \in EvThreads : iNextCookie < MaxFilters /\ Subscribe(t)
          \/ \E t \in EvThreads : SyncTrigger(t) \/ AsyncTrigger(t)
          \/ \E t \in EvThreads : TriggerLoop(t) \/ HandlerReturn(t)
          \/ \E t \in EvThreads : Accept(t) \/ Ignore(t)
          \/ \E t \in EvThreads : Exec(t) \/ ExecAccept(t)]_vars

\* An event with up to one filter and as many handlers: they are subscribed
\* and unsubscribed, installed and removed, and the event is triggered
\* synchronously; a handler may accept, ignore and trigger again.
FilterSpec ==
    Init /\ [][\/ \E t \in EvThreads : iNextCookie < MaxFilters /\ Subscribe(t)
               \/ \E t \in EvThreads : \E c \in Cookies : Unsubscribe(t, c)
               \/ \E t \in EvThreads : FilterAdded(t) \/ FilterRemoved(t)
               \/ \E t \in EvThreads : filterCount = 0 /\ SyncTrigger(t)
               \/ \E t \in EvThreads : \E aAccepted \in BOOLEAN :
                     SyncTriggerFiltered(t, NoArguments, aAccepted)
               \/ \E t \in EvThreads : Accept(t) \/ Ignore(t)
               \/ \E t \in EvThreads : TriggerLoop(t) \/ HandlerReturn(t)]_vars

(***************************************************************************)
(* The handles of the event: event_handle, event_control and the          *)
(* reference count of a handler.  The calls are made one after another,   *)
(* outside any trigger.  A handle operation that ends with an exception   *)
(* ends the run.                                                           *)
(***************************************************************************)
\* the event_handle objects the model makes
MaxHandles == 3
\* the subscriptions of the handle model
MaxHandleCookie == 2

\* the live handles of a cookie
LiveHandles(c) == { i \in 1..Len(handles) : handles[i].live /\ handles[i].id = c }

\* the part of the state the calls of a handle operation work on
HandleState ==
    [handlers |-> handlers, referenceCount |-> referenceCount,
     iControl |-> iControl, raised |-> raised]

\* (mutant of Found) a get_handler() that finds a handler for every cookie
FoundAny(S, c) == IF destroyed THEN "destroyed_event_used" ELSE "none"

\* get_handler(): throws when no handler has the cookie; a call on an event
\* whose destructor has run is recorded as such
Found(S, c) ==
    IF destroyed THEN "destroyed_event_used"
    ELSE IF \E k \in 1..Len(S.handlers) : S.handlers[k].cookie = c THEN "none"
    ELSE "event_handler_not_found"

\* event::add_ref(cookie), called by the constructors of cookie_ref_ptr
EventAddRef(S, c) ==
    IF S.raised # "none" THEN S
    ELSE IF Found(S, c) # "none" THEN [S EXCEPT !.raised = Found(S, c)]
    ELSE [S EXCEPT !.referenceCount[c] = @ + 1]

\* event::release(cookie), called by the destructor of an attached
\* cookie_ref_ptr: the handler is erased when its count reaches zero
EventRelease(S, c) ==
    IF S.raised # "none" THEN S
    ELSE IF Found(S, c) # "none" THEN [S EXCEPT !.raised = Found(S, c)]
    ELSE [S EXCEPT !.referenceCount[c] = @ - 1,
                   !.handlers = IF S.referenceCount[c] = 1
                                THEN SelectSeq(@, LAMBDA h : h.cookie # c)
                                ELSE @]

\* event::control(): the control block is made at the first call and holds
\* one reference for the event
Control(S) ==
    IF S.iControl.made THEN S
    ELSE [S EXCEPT !.iControl = [made |-> TRUE, iEvent |-> TRUE, iRefCount |-> 1,
                                 deleted |-> 0]]

\* event_control::add_ref()
ControlAddRef(S) ==
    IF S.raised # "none" THEN S
    ELSE [S EXCEPT !.iControl.iRefCount = @ + 1]

\* event_control::release(): "if (--iRefCount == 0u) delete this"
ControlRelease(S) ==
    IF S.raised # "none" THEN S
    ELSE [S EXCEPT !.iControl.iRefCount = @ - 1,
                   !.iControl.deleted = IF S.iControl.iRefCount = 1 THEN @ + 1 ELSE @]

\* an event destructor that leaves the control block pointing at the event
ControlStaysValid(S) == S

\* event_control::reset(): iEvent = nullptr
ControlReset(S) == [S EXCEPT !.iControl.iEvent = FALSE]

\* event_handle's copy and move constructors: iRef is copied, which calls
\* add_ref(cookie), then control().add_ref()
CopyConstruct(S, c) == ControlAddRef(EventAddRef(S, c))

\* ~event_handle(): a handle that is primary or whose control is not valid
\* resets iRef, which then releases nothing; control().release(); the
\* destructor of an iRef that was not reset calls release(cookie)
Destruct(S, c, aPrimary) ==
    IF ~S.iControl.iEvent \/ aPrimary
    THEN ControlRelease(S)
    ELSE EventRelease(ControlRelease(S), c)

\* the state S becomes the state of the event
Becomes(S) ==
    /\ handlers' = S.handlers
    /\ referenceCount' = S.referenceCount
    /\ iControl' = S.iControl
    /\ raised' = S.raised

\* what a handle operation leaves alone
HandleUnchanged ==
    /\ UNCHANGED << contexts, triggering, triggerId, evMutex, stack, lastReturn,
                    lastAccept >>
    /\ UNCHANGED << poolVars, varVars, dlvVars >>

\* subscribe(): the handler is appended with referenceCount 0 and the primary
\* handle is returned, whose iRef adds the first reference
SubscribeHandle(t) ==
    /\ UserCode(t)
    /\ ~destroyed
    /\ raised = "none"
    /\ iNextCookie < MaxHandleCookie
    /\ Len(handles) < MaxHandles
    /\ LET c == iNextCookie + 1
           S == [HandleState EXCEPT !.handlers =
                    EmplaceBackHandler(@, [cookie |-> c, queue |-> t, same |-> FALSE,
                                           triggerId |-> 0, stateless |-> "indeterminate",
                                           clientId |-> NullClientId])]
       IN /\ Becomes(ControlAddRef(EventAddRef(Control(S), c)))
          /\ iNextCookie' = c
          /\ handles' = Append(handles, [id |-> c, iPrimary |-> TRUE, live |-> TRUE,
                                         valid |-> TRUE])
    /\ handlersChanged' = TRUE
    /\ UNCHANGED << evQueue, destroyed >>
    /\ HandleUnchanged

\* event_handle(const event_handle&): the copy is not primary
CopyHandle(i) ==
    /\ i <= Len(handles)
    /\ handles[i].live
    /\ ~destroyed
    /\ raised = "none"
    /\ Len(handles) < MaxHandles
    /\ LET S == CopyConstruct(HandleState, handles[i].id)
       IN /\ Becomes(S)
          /\ handles' = IF S.raised = "none"
                        THEN Append(handles, [id |-> handles[i].id, iPrimary |-> FALSE,
                                              live |-> TRUE, valid |-> TRUE])
                        ELSE handles
    /\ UNCHANGED << handlersChanged, iNextCookie, evQueue, destroyed >>
    /\ HandleUnchanged

\* event_handle(event_handle&&): neither the new handle nor the old one is
\* primary afterwards
MoveHandle(i) ==
    /\ i <= Len(handles)
    /\ handles[i].live
    /\ handles[i].iPrimary
    /\ ~destroyed
    /\ raised = "none"
    /\ Len(handles) < MaxHandles
    /\ LET S == CopyConstruct(HandleState, handles[i].id)
       IN /\ Becomes(S)
          /\ handles' = IF S.raised = "none"
                        THEN Append([handles EXCEPT ![i].iPrimary = FALSE],
                                    [id |-> handles[i].id, iPrimary |-> FALSE,
                                     live |-> TRUE, valid |-> TRUE])
                        ELSE [handles EXCEPT ![i].iPrimary = FALSE]
    /\ UNCHANGED << handlersChanged, iNextCookie, evQueue, destroyed >>
    /\ HandleUnchanged

\* a handle is destroyed; "valid" keeps what control().valid() was
DropHandle(i) ==
    /\ i <= Len(handles)
    /\ handles[i].live
    /\ raised = "none"
    /\ Becomes(Destruct(HandleState, handles[i].id, handles[i].iPrimary))
    /\ handles' = [handles EXCEPT ![i].live = FALSE, ![i].valid = iControl.iEvent]
    /\ UNCHANGED << handlersChanged, iNextCookie, evQueue, destroyed >>
    /\ HandleUnchanged

\* unsubscribe(event_handle aHandle), called with a handle the caller keeps:
\* the parameter is a copy; the handler is erased; the parameter is destroyed
UnsubscribeHandle(t, i) ==
    /\ UserCode(t)
    /\ i <= Len(handles)
    /\ handles[i].live
    /\ ~destroyed
    /\ raised = "none"
    /\ LET c == handles[i].id
           S == CopyConstruct(HandleState, c)
           T == [S EXCEPT !.handlers = SelectSeq(@, LAMBDA h : h.cookie # c),
                          !.referenceCount[c] = 0]
       IN /\ Becomes(IF S.raised = "none" THEN Destruct(T, c, FALSE) ELSE S)
          /\ handlersChanged' = (handlersChanged \/ S.raised = "none")
    /\ UNCHANGED << handles, iNextCookie, evQueue, destroyed >>
    /\ HandleUnchanged

\* "~handle": handle_in_same_thread_as_emitter(id()) when the control is valid
TagHandle(i) ==
    /\ i <= Len(handles)
    /\ handles[i].live
    /\ raised = "none"
    /\ IF iControl.iEvent
       THEN IF Found(HandleState, handles[i].id) = "none"
            THEN /\ handlers' = [handlers EXCEPT ![FindHandler(handles[i].id)].same = TRUE]
                 /\ UNCHANGED raised
            ELSE /\ raised' = Found(HandleState, handles[i].id)
                 /\ UNCHANGED handlers
       ELSE UNCHANGED << handlers, raised >>
    /\ UNCHANGED << handles, referenceCount, iControl, handlersChanged, iNextCookie,
                    evQueue, destroyed >>
    /\ HandleUnchanged

\* ~event(): the control block is reset and the event's reference released;
\* clear() unqueues the event and drops the instance data
DestroyEvent(t) ==
    /\ UserCode(t)
    /\ ~destroyed
    /\ raised = "none"
    /\ LET S == IF iControl.made THEN ControlRelease(ControlReset(HandleState))
                ELSE HandleState
       IN Becomes([S EXCEPT !.handlers = << >>,
                            !.referenceCount = [c \in Cookies |-> 0]])
    /\ evQueue' = [evQueue EXCEPT ![t] = Unqueue(@)]
    /\ destroyed' = TRUE
    /\ UNCHANGED << handles, handlersChanged, iNextCookie >>
    /\ HandleUnchanged

HandleSpec ==
    /\ Init
    /\ [][\/ \E t \in EvThreads : SubscribeHandle(t)
          \/ \E i \in 1..MaxHandles : CopyHandle(i)
          \/ \E i \in 1..MaxHandles : MoveHandle(i)
          \/ \E i \in 1..MaxHandles : DropHandle(i)
          \/ \E t \in EvThreads : \E i \in 1..MaxHandles : UnsubscribeHandle(t, i)
          \/ \E i \in 1..MaxHandles : TagHandle(i)
          \/ \E t \in EvThreads : DestroyEvent(t)]_vars

\* Handles that are stale: the handlers, all subscribed without client id,
\* are unsubscribed by unsubscribe(nullptr) while their handles live on, and
\* unsubscribe(handle) is called with such a handle.  Handles are copied
\* only while their handler is subscribed.
StaleSpec ==
    /\ Init
    /\ [][\/ \E t \in EvThreads : SubscribeHandle(t)
          \/ \E i \in 1..MaxHandles :
                i <= Len(handles) /\ HasHandler(handles[i].id) /\ CopyHandle(i)
          \/ \E i \in 1..MaxHandles : DropHandle(i)
          \/ \E t \in EvThreads :
                raised = "none" /\ ~destroyed /\ UnsubscribeClient(t, NullClientId)
          \/ \E t \in EvThreads : \E i \in 1..MaxHandles :
                i <= Len(handles) /\ ~HasHandler(handles[i].id) /\ UnsubscribeHandle(t, i)]_vars

(***************************************************************************)
(* Subscribers that share a client id: three handlers are subscribed, each *)
(* without client id or with the one client id there is, and then whole    *)
(* clients are unsubscribed.                                               *)
(***************************************************************************)
\* the client ids passed to subscribe and unsubscribe
ClientIds == {NullClientId, 1}

ClientSpec ==
    /\ Init
    /\ [][\/ \E t \in EvThreads : \E id \in ClientIds : SubscribeClient(t, id)
          \/ \E t \in EvThreads : \E id \in ClientIds :
                iNextCookie = MaxCookie /\ UnsubscribeClient(t, id)]_vars

(***************************************************************************)
(* Properties of the thread pool.                                          *)
(***************************************************************************)
EveryWorkerIdle ==
    \A w \in Workers : iActiveTask[w] = NoTask /\ iWaitingTasks[w] = << >>

\* the task has been handed to start
Started(t) == t < nextTask

Finished(t) == outcome[t] \in {"run", "skipped"}

\* a wait() of client c that reads the flags now returns
WaitReturns(c) == cpc[c] \in {"idle", "w_lock"} /\ (iStopped \/ iIdle)

InWait(c) == cpc[c] \in {"w_lock", "w_blocked"}

\* a start() holds the pool mutex between placing its task and update_idle()
StartInProgress == iMutex # NoThread /\ section.step = "next_task"

\* the priority with which task t waits in a queue
QueuedPriority(t) ==
    LET w == CHOOSE v \in Workers : \E i \in 1..Len(iWaitingTasks[v]) : iWaitingTasks[v][i].task = t
        i == CHOOSE j \in 1..Len(iWaitingTasks[w]) : iWaitingTasks[w][j].task = t
    IN iWaitingTasks[w][i].priority

\* C1: whenever a waiting task is promoted to a worker's active slot, no task
\* left waiting in that worker's queue has a strictly higher priority than
\* the promoted task.
C1_PromotionByPriority ==
    [][\A w \in Workers :
          (iActiveTask'[w] # iActiveTask[w] /\ iActiveTask'[w] # NoTask)
          => \A i \in 1..Len(iWaitingTasks'[w]) :
                iWaitingTasks'[w][i].priority <= QueuedPriority(iActiveTask'[w])]_vars

\* C1 witness: a task was promoted ahead of a task handed to start before it,
\* which still waits in the same queue.
C1_Witness ==
    \E w \in Workers :
       /\ iActiveTask[w] # NoTask
       /\ \E i \in 1..Len(iWaitingTasks[w]) : iWaitingTasks[w][i].task < iActiveTask[w]

\* C3 (as claimed): whenever a wait() on a pool that is not stopped reads the
\* idle flag as true and returns, every worker has no active task and an empty
\* waiting queue.
C3_IdleFlagExact ==
    \A c \in Clients : (WaitReturns(c) /\ ~iStopped) => EveryWorkerIdle

\* C3 (amended): whenever a wait() on a pool that is not stopped reads the idle
\* flag as true and returns, every worker has no active task and an empty
\* waiting queue, or a start() of another thread holds the pool mutex, having
\* placed its task and not yet updated the idle flag.
C3_IdleFlagExactOutsideStart ==
    \A c \in Clients : (WaitReturns(c) /\ ~iStopped) => (EveryWorkerIdle \/ StartInProgress)

\* C3 witness: a thread that was blocked in wait() is about to return from it
\* on a pool that is not stopped and whose tasks have all been run.
C3_Witness ==
    \E c \in Clients :
       /\ cpc[c] = "w_lock" /\ iIdle /\ ~iStopped /\ iMutex = NoThread
       /\ \E t \in Tasks : outcome[t] = "run"

\* C4: every thread in wait() eventually returns once the pool is stopped or
\* once all workers are idle for good, each of several waiters included.
C4_EveryWaiterReturns ==
    \A c \in Clients : []<>(~(InWait(c) /\ (iStopped \/ EveryWorkerIdle)))

\* C5: on a pool that is never stopped, every task handed to start is
\* eventually run or skipped as cancelled: from some moment on, for good, no
\* started task is left in a waiting queue or in an active slot.
C5_EveryTaskFinishes ==
    <>[](\A t \in Tasks : Started(t) => Finished(t))

\* C5 witness: every worker has an active task, one of which has been run, and
\* a task waits in a queue behind them.
C5_Witness ==
    /\ \A w \in Workers : iActiveTask[w] # NoTask
    /\ \E w \in Workers : iWaitingTasks[w] # << >>
    /\ \E t \in Tasks : outcome[t] = "run"

\* C6: run is never called on a task whose cancellation flag is set (the flag
\* stays set, so a task cancelled before its promotion is never run); the
\* worker that finds its active task cancelled skips it and goes on to
\* release the slot; a task whose run has begun runs to its end.
C6_CancelledNeverRun ==
    [][\A t \in Tasks :
          /\ iCancelled[t] => iCancelled'[t]
          /\ (iCancelled[t] /\ outcome[t] = "none") => outcome'[t] \in {"none", "skipped"}
          /\ outcome[t] = "running" => outcome'[t] \in {"running", "run"}
          /\ \A w \in Workers :
                (iActiveTask[w] = t /\ iCancelled[t] /\ wpc[w] = "wait" /\ wpc'[w] \notin {"wait", "exited"})
                => (wpc'[w] = "finish" /\ outcome'[t] = "skipped")]_vars

\* C6 witness: a cancelled task was skipped and its slot cleared, and a task
\* cancelled after its run began was run to its end.
C6_Witness ==
    /\ \E t \in Tasks : outcome[t] = "skipped" /\ \A w \in Workers : iActiveTask[w] # t
    /\ \E t \in Tasks : outcome[t] = "run" /\ iCancelled[t]

\* C7 (as claimed): a task cancelled by its submitter right after start
\* returned is never run.
C7_CancelAtOnceNeverRun ==
    \A t \in Tasks : iCancelled[t] => ~Ran(t)

\* C7 (amended): a task cancelled by its submitter right after start returned
\* is never run if the cancel() completed before the worker checked the task's
\* cancellation flag.
C7_CancelBeforeCheckNeverRun ==
    \A t \in Tasks : cancelWhen[t] = "before_check" => ~Ran(t)

\* C7 witness: the cancel() came before the worker's check, and the worker
\* skipped the task.
C7_Witness ==
    \E t \in Tasks : cancelWhen[t] = "before_check" /\ outcome[t] = "skipped"

\* C8: the future of a task is eventually signalled once its run has returned
\* and once the worker has skipped it as cancelled.
C8_FutureSignalled ==
    \A t \in Tasks : Finished(t) ~> future[t]

(***************************************************************************)
(* Properties of the event.                                                *)
(***************************************************************************)
\* C2: every sync_trigger or async_trigger call dispatches (invokes inline or
\* enqueues) each handler at most once, whatever is subscribed or unsubscribed
\* during the dispatch and however triggers of the event nest or overlap.
C2_DispatchedOncePerTrigger ==
    \A t \in EvThreads : \A i \in 1..Len(stack[t]) : stack[t][i].again = {}

\* C9: no handler is dispatched after the handler during which the trigger was
\* accepted (a sync_trigger whose handler called accept() is not found back in
\* its dispatch loop), and that sync_trigger returns false.
C9_NoDispatchAfterAccept ==
    \A t \in EvThreads :
       /\ InTrigger(t) => ~Top(t).want
       /\ lastReturn[t].wanted => ~lastReturn[t].value

\* C10: acceptance is per trigger: an accept() marks the context of the
\* sync_trigger call that invoked the accepting handler, and a sync_trigger
\* returns false only when one of its own handlers accepted.
C10_AcceptancePerTrigger ==
    /\ lastAccept.by = lastAccept.marked
    /\ \A t \in EvThreads : ~lastReturn[t].value => lastReturn[t].wanted

\* the sync_trigger the thread is in returns true from the end of its loop
ReturnsTrue(t) ==
    /\ InTrigger(t)
    /\ Top(t).kind = "sync"
    /\ stack'[t] = Front(stack[t])

\* C11: a sync_trigger that nothing accepts dispatches every handler that is
\* subscribed from its start to its return exactly once, whatever else is
\* subscribed or unsubscribed meanwhile.
C11_SubscribedDispatchedOnce ==
    [][\A t \in EvThreads :
          (ReturnsTrue(t) /\ lastAccept.by = << 0, 0 >>)
          => \A c \in Top(t).atStart :
                HasHandler(c) => c \in Top(t).done /\ c \notin Top(t).again]_vars

\* the trigger call the thread is in dispatches a handler in this step
DispatchStep(t) ==
    /\ InTrigger(t)
    /\ stack'[t] # stack[t]
    /\ Top(t).handlerIndex < Len(handlers)
    /\ handlers[Top(t).handlerIndex + 1].triggerId # Top(t).triggerId

\* the handler list was not changed since the trigger call the thread is in
\* started: an async_trigger holds the lock throughout, and every subscribe and
\* unsubscribe marks the context a sync_trigger pushed
NotMutated(t) ==
    \/ Top(t).kind # "sync"
    \/ \E i \in 1..Len(contexts) :
          /\ contexts[i].owner = << t, Len(stack[t]) >>
          /\ ~contexts[i].handlersChanged

\* C12: while the handler list is not changed during a trigger, the trigger
\* dispatches the handlers in the order of their subscription: no handler it
\* dispatched before was subscribed after the one it dispatches now, and it
\* has dispatched every handler that stands before that one in the list.  (A
\* handler dispatched a second time is not out of order; that is C2.)
C12_SubscriptionOrder ==
    [][\A t \in EvThreads :
          (DispatchStep(t) /\ NotMutated(t))
          => /\ \A c \in Top(t).done : c <= handlers[Top(t).handlerIndex + 1].cookie
             /\ \A i \in 1..Top(t).handlerIndex : handlers[i].cookie \in Top(t).done]_vars

\* a trigger has dispatched three handlers and the list was not changed
C12_Witness ==
    \E t \in EvThreads :
       /\ InTrigger(t)
       /\ NotMutated(t)
       /\ Cardinality(Top(t).done) = MaxCookie

(***************************************************************************)
(* Properties of the delivery of the callbacks.                            *)
(***************************************************************************)
\* the number of callbacks of handler c with arguments a pending on a queue
Pending(q, c, a) ==
    Cardinality({ i \in 1..Len(q) :
                     q[i].event = ThisEvent /\ q[i].cookie = c /\ q[i].args = a })

\* the handler the trigger call of the thread is about to dispatch
Dispatched(t) == handlers[Top(t).handlerIndex + 1]

\* the step invokes the handler inline and enqueues nothing
InlineStep(t) ==
    /\ InHandler(t)'
    /\ Top(t)'.cookie = Dispatched(t).cookie
    /\ evQueue' = evQueue

\* the step enqueues one callback with the trigger's arguments on queue q and
\* invokes nothing
EnqueueStep(t, q) ==
    /\ ~InHandler(t)'
    /\ Pending(evQueue'[q], Dispatched(t).cookie, Top(t).args)
          = Pending(evQueue[q], Dispatched(t).cookie, Top(t).args) + 1
    /\ \A u \in EvThreads \ {q} : evQueue'[u] = evQueue[u]

\* C13: a sync trigger on thread B does not invoke inline a handler subscribed
\* on another thread A (not tagged same-thread, A's queue alive); it enqueues
\* one callback with its arguments on A's queue, once per trigger; a handler
\* tagged same-thread or subscribed on B is invoked inline, nothing enqueued.
C13_CrossThreadEnqueuedOnce ==
    [][\A t \in EvThreads :
          (DispatchStep(t) /\ Top(t).kind = "sync")
          => IF Dispatched(t).same \/ Dispatched(t).queue = t
             THEN InlineStep(t)
             ELSE ~queueDestroyed[Dispatched(t).queue]
                  => /\ EnqueueStep(t, Dispatched(t).queue)
                     /\ Dispatched(t).cookie \notin Top(t).done]_vars

\* the thread is in an async_trigger, called directly or by trigger()
AsyncCall(t) == InTrigger(t) /\ Top(t).kind \in {"async", "trigger"}

\* the async_trigger of the thread ends in this step, by return or by throw
AsyncEnds(t) == AsyncCall(t) /\ stack'[t] = Front(stack[t])

\* the async_trigger of the thread ends by the throw of enqueue()
AsyncThrows(t) == AsyncEnds(t) /\ Top(t).handlerIndex < Len(handlers)

\* enqueue() has a queue for the handler: the emitter's for a handler tagged
\* same-thread, else the handler's own unless that queue is destroyed
Deliverable(h) == h.same \/ ~queueDestroyed[h.queue]

\* C14 as stated: an async_trigger (or a trigger of type Asynchronous or
\* AsynchronousDontQueue) invokes no handler inline, enqueues one callback for
\* every handler, and trigger returns true.
C14_AsyncAlwaysEnqueues ==
    [][\A t \in EvThreads :
          AsyncCall(t)
          => /\ Len(stack'[t]) <= Len(stack[t])
             /\ DispatchStep(t)
                => /\ EnqueueStep(t, TargetQueue(Dispatched(t), t))
                   /\ Dispatched(t).cookie \notin Top(t).done
             /\ AsyncEnds(t)
                => /\ ~AsyncThrows(t)
                   /\ \A i \in 1..Len(handlers) : handlers[i].cookie \in Top(t).done
                   /\ Top(t).kind = "trigger" => lastReturn'[t].value]_vars

\* C14, amended: an async_trigger invokes no handler inline and enqueues one
\* callback for every handler that is tagged same-thread or whose queue is
\* alive; for a handler whose queue is destroyed nothing is enqueued, and the
\* trigger goes on when errors are ignored and throws event_queue_destroyed
\* otherwise; a trigger that does not throw has dispatched every handler and
\* returns true.
C14_AsyncEnqueuesDeliverable ==
    [][\A t \in EvThreads :
          AsyncCall(t)
          => /\ Len(stack'[t]) <= Len(stack[t])
             /\ DispatchStep(t)
                => /\ Dispatched(t).cookie \notin Top(t).done
                   /\ IF Deliverable(Dispatched(t))
                      THEN /\ EnqueueStep(t, TargetQueue(Dispatched(t), t))
                           /\ ~AsyncEnds(t)
                      ELSE /\ evQueue' = evQueue
                           /\ AsyncThrows(t) <=> ~ignoreErrors
                           /\ AsyncThrows(t) => lastError'[t] = "event_queue_destroyed"
             /\ (AsyncEnds(t) /\ ~AsyncThrows(t))
                => /\ \A i \in 1..Len(handlers) : handlers[i].cookie \in Top(t).done
                   /\ Top(t).kind = "trigger" => lastReturn'[t].value]_vars

\* a trigger of an asynchronous type has returned true on a thread whose queue
\* holds a callback for a handler subscribed on that thread and one for a
\* handler of another thread that is tagged same-thread
C14_Witness ==
    /\ triggerType \in {"Asynchronous", "AsynchronousDontQueue"}
    /\ \E t \in EvThreads :
          /\ stack[t] = << >>
          /\ lastReturn[t].value
          /\ \E i, j \in 1..Len(handlers) :
                /\ handlers[i].queue = t
                /\ ~handlers[i].same
                /\ handlers[j].queue # t
                /\ handlers[j].same
                /\ \E a \in 1..MaxTriggerId :
                      /\ Pending(evQueue[t], handlers[i].cookie, a) = 1
                      /\ Pending(evQueue[t], handlers[j].cookie, a) = 1

\* the thread enters the dispatch loop of a trigger in this step
TriggerStep(t) ==
    /\ UserCode(t)
    /\ Len(stack'[t]) = Len(stack[t]) + 1
    /\ InTrigger(t)'

\* the trigger types that unqueue first
DontQueue == {"SynchronousDontQueue", "AsynchronousDontQueue"}

\* C15: a trigger of type SynchronousDontQueue or AsynchronousDontQueue first
\* removes every pending callback of this event, on whatever queue it pends,
\* and removes only those: the pending callbacks of every other event stay
\* queued in unchanged order.
C15_DontQueueRemovesThisEventOnly ==
    [][\A t \in EvThreads :
          (TriggerStep(t) /\ triggerType \in DontQueue)
          => \A q \in EvThreads :
                /\ \A i \in 1..Len(evQueue'[q]) : evQueue'[q][i].event # ThisEvent
                /\ OtherPending(evQueue'[q]) = OtherPending(evQueue[q])]_vars

\* the positions of the callbacks of handler c of this event in a queue
Own(q, c) == { k \in 1..Len(q) : q[k].event = ThisEvent /\ q[k].cookie = c }

\* the handlers marked stateless with "!handle"
Stateless == { i \in 1..Len(handlers) : handlers[i].stateless = "set" }

\* C16 as stated: when every trigger is asynchronous and no other event
\* enqueues anything, a handler marked stateless has at most one pending
\* callback on a queue, that of the latest trigger that dispatched it, and an
\* exec invokes it at most once.
C16_StatelessOnePending ==
    triggerType \in {"Asynchronous", "AsynchronousDontQueue"}
    => \A i \in Stateless : \A q \in EvThreads :
          (OtherPending(evQueue[q]) = << >> /\ OtherPending(lastCall[q]) = << >>)
          =>
          /\ Cardinality(Own(evQueue[q], handlers[i].cookie)) <= 1
          /\ Cardinality(Own(lastCall[q], handlers[i].cookie)) <= 1
          /\ \A k \in Own(evQueue[q], handlers[i].cookie) :
                evQueue[q][k].args = handlers[i].triggerId

\* no two callbacks of a handler marked stateless stand next to each other
NeverAdjacent(q) ==
    \A i \in Stateless : \A k \in Own(q, handlers[i].cookie) :
       k + 1 \notin Own(q, handlers[i].cookie)

\* C16, amended: async triggers of the event that follow each other with no
\* other callback enqueued on the handler's queue between them leave one
\* pending callback for a handler marked stateless: a callback enqueued for
\* it replaces the last entry of the queue when that is a callback of the
\* same handler, so that the newest arguments remain, and is appended
\* otherwise; an exec therefore never invokes the callable twice in a row.
C16_StatelessCoalescedAtTail ==
    [][/\ \A q \in EvThreads : NeverAdjacent(evQueue[q])' /\ NeverAdjacent(lastCall[q])'
       /\ \A t \in EvThreads :
             (DispatchStep(t) /\ AsyncCall(t) /\ Dispatched(t).stateless = "set"
                 /\ Deliverable(Dispatched(t)))
             => LET q == TargetQueue(Dispatched(t), t)
                    c == Dispatched(t).cookie
                IN /\ evQueue'[q][Len(evQueue'[q])]
                         = [event |-> ThisEvent, cookie |-> c, args |-> Top(t).args]
                   /\ Cardinality(Own(evQueue'[q], c))
                         = IF Len(evQueue[q]) \in Own(evQueue[q], c)
                           THEN Cardinality(Own(evQueue[q], c))
                           ELSE Cardinality(Own(evQueue[q], c)) + 1]_vars

\* every trigger was asynchronous, the only handler is marked stateless, two
\* triggers dispatched it, and the exec of its queue invoked it once, with the
\* arguments of the second
C16_Witness ==
    /\ triggerType = "Asynchronous"
    /\ triggerId = 2
    /\ Len(handlers) = 1
    /\ Stateless = {1}
    /\ lastCall[handlers[1].queue]
          = << [event |-> ThisEvent, cookie |-> handlers[1].cookie, args |-> 2] >>

(***************************************************************************)
(* Properties of the handles.                                              *)
(***************************************************************************)
\* unsubscribe(handle) erases the handler of handle i in this step
UnsubscribeStep(i) ==
    /\ handles[i].live
    /\ handles' = handles
    /\ ~destroyed'
    /\ HasHandler(handles[i].id)
    /\ ~HasHandler(handles[i].id)'

\* C17: on an event with no other handler, subscribe followed by unsubscribe
\* of the returned handle leaves the handler list empty and the use count at
\* zero, and no reference to the removed cookie is released afterwards: no
\* error is raised.
C17_SubscribeUnsubscribe ==
    [][\A i \in 1..Len(handles) :
          (UnsubscribeStep(i) /\ handles[i].iPrimary /\ Len(handlers) = 1)
          => /\ handlers' = << >>
             /\ referenceCount'[handles[i].id] = 0
             /\ raised' = "none"]_vars

\* C18: while no unsubscribe was made, a cookie with a live handle has its
\* handler subscribed with a reference count equal to the number of its live
\* handles, and the handler of a cookie without live handle is removed.
C18_CountIsLiveHandles ==
    (raised = "none" /\ ~destroyed)
    => \A c \in 1..iNextCookie :
          IF LiveHandles(c) # {}
          THEN HasHandler(c) /\ referenceCount[c] = Cardinality(LiveHandles(c))
          ELSE ~HasHandler(c)

\* handle i is destroyed in this step
DropStep(i) == handles[i].live /\ ~handles'[i].live

\* C19: the handle subscribe returns is primary and a copy is not; dropping a
\* primary handle unsubscribes the handler of its cookie, dropping a handle
\* that is not primary does not.
C19_PrimaryDropUnsubscribes ==
    [][/\ Len(handles') > Len(handles)
          => (handles'[Len(handles')].iPrimary <=> iNextCookie' # iNextCookie)
       /\ \A i \in 1..Len(handles) :
             (DropStep(i) /\ ~destroyed /\ HasHandler(handles[i].id))
             => (handles[i].iPrimary <=> ~HasHandler(handles[i].id)')]_vars

\* C20: once the event is destroyed the control block is not valid, dropping
\* or tagging a handle calls nothing on the destroyed event and raises
\* nothing, and the control block is deleted exactly once, when the event
\* is destroyed and no handle is left, not before.
C20_DestroyedEventUntouched ==
    /\ destroyed => /\ raised = "none"
                    /\ iControl.made => ~iControl.iEvent
    /\ raised = "none"
       => iControl.deleted = IF /\ iControl.made
                                /\ destroyed
                                /\ \A i \in 1..Len(handles) : ~handles[i].live
                             THEN 1 ELSE 0

\* the event is destroyed, a copy of a handle that outlived it was dropped
\* while the control was not valid, no handle is left and the control block
\* is deleted
C20_Witness ==
    /\ destroyed
    /\ raised = "none"
    /\ iControl.deleted = 1
    /\ \A i \in 1..Len(handles) : ~handles[i].live
    /\ \E i, j \in 1..Len(handles) :
          /\ ~handles[i].iPrimary /\ ~handles[i].valid
          /\ handles[j].iPrimary /\ ~handles[j].valid

(***************************************************************************)
(* Properties of unsubscribe(aClientId).                                   *)
(***************************************************************************)
\* C21: unsubscribe(client id) removes every handler with that client id and
\* no other handler, and the handlers that remain keep their order of
\* subscription (their cookies rise along the list).
C21_UnsubscribeClientRemovesAll ==
    [][iNextCookie' = iNextCookie
       => \E id \in ClientIds :
             /\ { handlers'[k] : k \in 1..Len(handlers') }
                   = { handlers[k] : k \in { j \in 1..Len(handlers) :
                                                handlers[j].clientId # id } }
             /\ \A j, k \in 1..Len(handlers') :
                   j < k => handlers'[j].cookie < handlers'[k].cookie]_vars

\* of three handlers the second is left: the first and the third had the
\* other client id, and one unsubscribe removed both
C21_Witness ==
    /\ iNextCookie = MaxCookie
    /\ Len(handlers) = 1
    /\ handlers[1].cookie = 2

(***************************************************************************)
(* Properties of try_start, stop and reserve.                              *)
(***************************************************************************)
\* C22: try_start returns false, and enqueues nothing, when every worker has
\* an active task as it counts the available threads; and a task whose
\* try_start returns true is handed to a worker that has no active task: it
\* is never queued behind an active task.
C22_TryStartNeverQueuesBehind ==
    [][\A c \in Clients :
          /\ (/\ cpc[c] = "try_available"
              /\ cpc'[c] # "try_available"
              /\ \A w \in Workers : Active(w))
                 => /\ tried'[carg[c].task] = "false"
                    /\ iWaitingTasks' = iWaitingTasks
          /\ (/\ cpc[c] = "start_lock"
              /\ cpc'[c] # "start_lock"
              /\ tried[carg[c].task] = "true")
                 => ~Active(SelectWorker)]_vars

\* C23: stop() is final.  When a stop() call returns, every worker thread has
\* terminated; in a stopped pool no task's run begins, and a start or
\* try_start call changes no queue and no active slot (try_start returns
\* false); and a task that start hands over while stop() is in progress is
\* not placed on a worker whose thread has terminated.
C23_StopIsFinal ==
    [][/\ (iStopped' /\ ~iStopped) => \A w \in Workers : wpc'[w] = "exited"
       /\ iStopped => \A t \in Tasks : outcome'[t] = "running" => outcome[t] = "running"
       /\ (iStopped /\ nextTask' # nextTask)
             => /\ iWaitingTasks' = iWaitingTasks
                /\ iActiveTask' = iActiveTask
                /\ cpc' = cpc
                /\ tried'[nextTask] # "true"
       /\ \A c \in Clients :
             (cpc[c] = "start_lock" /\ cpc'[c] # "start_lock" /\ Stopping)
                => wpc[SelectWorker] # "exited"]_vars

\* C24: max_threads never decreases: after each reserve call it is at least
\* what it was before the call, and the number of workers never shrinks.
C24_MaxThreadsMonotonic ==
    [][iMaxThreads' >= iMaxThreads /\ iThreads' >= iThreads]_vars

(***************************************************************************)
(* Properties of the delivery to a destroyed queue.                        *)
(***************************************************************************)
\* C25: when a trigger comes to a handler whose callback must be enqueued and
\* whose queue is destroyed, nothing is enqueued or invoked; if the event
\* ignores errors the trigger raises nothing and goes on with the handlers
\* that remain; otherwise it ends with event_queue_destroyed, and a
\* sync_trigger that ends so has popped the context it pushed: the context
\* stack is one shorter, an async_trigger leaves it as it is.
C25_DestroyedQueueDelivery ==
    [][\A t \in EvThreads :
          (DispatchStep(t) /\ ~Deliverable(Dispatched(t)))
          => /\ evQueue' = evQueue
             /\ IF ignoreErrors
                THEN /\ lastError' = lastError
                     /\ contexts' = contexts
                     /\ Len(stack'[t]) = Len(stack[t])
                     /\ InTrigger(t)'
                     /\ Top(t)'.done = Top(t).done \cup {Dispatched(t).cookie}
                     /\ Top(t)'.handlerIndex \in {0, Top(t).handlerIndex + 1}
                ELSE /\ stack'[t] = Front(stack[t])
                     /\ lastError'[t] = "event_queue_destroyed"
                     /\ Len(contexts') = IF Top(t).kind = "sync"
                                         THEN Len(contexts) - 1
                                         ELSE Len(contexts)]_vars

\* a thread whose sync trigger once ended with event_queue_destroyed triggers
\* again now that errors are ignored: the trigger has passed a handler whose
\* queue is destroyed and is inside a handler that stands after it
C25_Witness ==
    /\ ignoreErrors
    /\ triggerType \in {"Default", "Synchronous", "SynchronousDontQueue"}
    /\ \E t \in EvThreads :
          /\ lastError[t] = "event_queue_destroyed"
          /\ InHandler(t)
          /\ \E i, j \in 1..Len(handlers) :
                /\ i < j
                /\ ~Deliverable(handlers[i])
                /\ handlers[i].cookie \in stack[t][Len(stack[t]) - 1].done
                /\ handlers[j].cookie = Top(t).cookie

(***************************************************************************)
(* Properties of unsubscribe(handle) with a stale handle.                  *)
(***************************************************************************)
\* C26: unsubscribe with a handle whose cookie has no handler in the event
\* any more ends with event_handler_not_found and leaves the handler list as
\* it is.
C26_StaleUnsubscribeNotFound ==
    [][\A t \in EvThreads : \A i \in 1..MaxHandles :
          (/\ i <= Len(handles)
           /\ ~HasHandler(handles[i].id)
           /\ UnsubscribeHandle(t, i))
          => /\ raised' = "event_handler_not_found"
             /\ handlers' = handlers]_vars

\* event_handler_not_found was raised while no handle had been destroyed (so
\* that no destructor raised it): by unsubscribe(handle), for the first
\* cookie, with the handler of the second cookie still subscribed
C26_Witness ==
    /\ raised = "event_handler_not_found"
    /\ \A i \in 1..Len(handles) : handles[i].live
    /\ Len(handlers) = 1
    /\ handlers[1].cookie = 2

(***************************************************************************)
(* Properties of work stealing and of the queues.  The workers the source  *)
(* counts from 0 are the workers 1 and 2 here.                             *)
(***************************************************************************)
\* C27: in a pool of two workers, whenever tasks wait in the queue of the
\* first worker while the second has no active task (and no thread is inside
\* add() or next_task()), the second worker eventually runs a task: it does
\* not stay blocked while its peer has waiting tasks.
C27_IdleWorkerSteals ==
    (/\ iThreads = 2
     /\ iMutex = NoThread
     /\ iWaitingTasks[1] # << >>
     /\ ~Active(2))
       ~> (wpc[2] = "run")

(***************************************************************************)
(* Properties of the comparison of variants.                               *)
(***************************************************************************)
\* C28: for two variants of any types, a != b gives the negation of what
\* a == b gives, and neither of the two throws unknown_type.
C28_NotEqualNegatesEqual ==
    (compared.eq # "none" /\ compared.ne # "none")
    => /\ compared.eq # "unknown_type"
       /\ compared.ne # "unknown_type"
       /\ (compared.ne = "true") <=> (compared.eq = "false")

\* C29: each worker's waiting queue is sorted by priority, highest first, in
\* every reachable state; an entry is added behind every entry of the same or
\* of a higher priority and before those of a lower one, and an entry leaves
\* the queue at its head (by promotion or by stealing): tasks of equal
\* priority leave a queue in the order in which they were added to it.
C29_QueuesSortedAndStable ==
    /\ [](\A w \in WorkerIds : \A i, j \in 1..Len(iWaitingTasks[w]) :
             i < j => iWaitingTasks[w][i].priority >= iWaitingTasks[w][j].priority)
    /\ [][\A w \in WorkerIds :
            LET q == iWaitingTasks[w]
                r == iWaitingTasks'[w]
            IN \/ r = q
               \/ q # << >> /\ r = Tail(q)
               \/ /\ Len(r) = Len(q) + 1
                  /\ \E k \in 1..Len(r) :
                        /\ q = SubSeq(r, 1, k - 1) \o SubSeq(r, k + 1, Len(r))
                        /\ \A i \in 1..(k - 1) : r[i].priority >= r[k].priority
                        /\ \A i \in (k + 1)..Len(r) : r[i].priority < r[k].priority]_vars

\* two tasks of the same priority wait in one queue behind an active task
C29_Witness ==
    \E w \in WorkerIds :
       /\ Active(w)
       /\ Len(iWaitingTasks[w]) = 2
       /\ iWaitingTasks[w][1].priority = iWaitingTasks[w][2].priority

\* C30: start, on a pool that is not stopped, places the task on the first
\* worker in creation order that has no active task, where it becomes the
\* active task; if every worker has an active task, the task is put in the
\* waiting queue of the first worker; the waiting queue and the active slot
\* of every other worker are unchanged.
C30_StartPlacement ==
    [][\A c \in Clients :
          LET idle == { v \in 1..iThreads : iActiveTask[v] = NoTask }
              w == IF idle = {} THEN 1 ELSE CHOOSE v \in idle : \A u \in idle : v <= u
              e == [task |-> carg[c].task, priority |-> carg[c].priority]
          IN /\ (cpc[c] = "start_lock" /\ cpc'[c] # "start_lock")
                => /\ \E k \in 1..Len(iWaitingTasks'[w]) :
                         /\ iWaitingTasks'[w][k] = e
                         /\ iWaitingTasks[w] = SubSeq(iWaitingTasks'[w], 1, k - 1)
                                                  \o SubSeq(iWaitingTasks'[w], k + 1,
                                                            Len(iWaitingTasks'[w]))
                   /\ \A v \in WorkerIds \ {w} : iWaitingTasks'[v] = iWaitingTasks[v]
                   /\ iActiveTask' = iActiveTask
                   /\ (cpc'[c] = "in_section") <=> (idle # {})
                   /\ (cpc'[c] = "in_section") => section'.w = w
             /\ (cpc[c] = "in_section" /\ cpc'[c] # "in_section")
                => /\ iActiveTask' = [iActiveTask EXCEPT ![section.w] = carg[c].task]
                   /\ iWaitingTasks[section.w] = << e >>
                   /\ iWaitingTasks' = [iWaitingTasks EXCEPT ![section.w] = << >>]]_vars

\* a start has put its task in the queue of the first worker, both workers
\* having an active task: the two tasks before went to the first and to the
\* second worker
C30_Witness ==
    \E c \in Clients :
       /\ cpc[c] = "started"
       /\ iThreads = 2
       /\ Active(1)
       /\ Active(2)
       /\ iWaitingTasks[1] = << [task |-> carg[c].task, priority |-> carg[c].priority] >>

C32_ContextsBalanced ==
    Quiet => contexts = << >>

\* C33: all callbacks that one trigger call enqueues on the same receiving
\* queue carry one transaction, also when handlers dispatched inline lie
\* between the cross-thread handlers in subscription order.
C33_OneTransactionPerQueue ==
    tx.handlerIndex = Len(tx.handlers)
    => \A q \in EvThreads : \A i, j \in 1..Len(tx.queues[q]) :
          tx.queues[q][i] = tx.queues[q][j]

\* C34: next_task is never entered for a worker that already has an active
\* task and release is never called for a worker without one: a worker that
\* has finished its task still holds it when it calls release, the next_task
\* of add() finds the slot empty, and an occupied slot changes only in the
\* release and next_task of its own worker.
C34_NoAlreadyActiveNoNoActiveTask ==
    /\ [](\A w \in Workers : wpc[w] = "finish" => iActiveTask[w] # NoTask)
    /\ []((iMutex # NoThread /\ section.step = "next_task")
             => iActiveTask[section.w] = NoTask)
    /\ [][\A w \in Workers :
             (iActiveTask[w] # NoTask /\ iActiveTask'[w] # iActiveTask[w])
             => (wpc[w] = "finish" /\ wpc'[w] = "wait")]_vars

\* C34 witness: a worker that has finished a task is about to call release and
\* next_task while a client that has added a task to another worker is about
\* to enter next_task, and a third task waits in a queue.
C34_Witness ==
    /\ iMutex # NoThread /\ section.step = "next_task"
    /\ \E w \in Workers : w # section.w /\ wpc[w] = "finish"
    /\ ~iStopped

\* C35: task conservation: while the pool is not stopped, every task that
\* start has added is in exactly one place, a waiting queue or an active slot,
\* until its worker has finished and released it, and in none afterwards; no
\* task is in two places, a finished task is not run again and a task's run
\* begins once.
C35_TaskConservation ==
    /\ [](~iStopped =>
            \A t \in Tasks :
               LET waiting == { << w, i >> \in Workers \X (1..MaxTasks) :
                                  i <= Len(iWaitingTasks[w]) /\ iWaitingTasks[w][i].task = t }
                   active == { w \in Workers : iActiveTask[w] = t }
                   places == Cardinality(waiting) + Cardinality(active)
                   added == /\ t < nextTask
                            /\ tried[t] # "false"
                            /\ \A c \in Clients :
                                  ~(cpc[c] \in {"start_lock", "try_available", "try_start"}
                                    /\ carg[c].task = t)
               IN /\ places <= 1
                  /\ ~added => places = 0
                  /\ (added /\ outcome[t] \in {"none", "running"}) => places = 1
                  /\ (added /\ places = 0) => outcome[t] \in {"run", "skipped"}
                  /\ (waiting # {}) => outcome[t] = "none")
    /\ [][\A t \in Tasks :
             /\ outcome[t] \in {"run", "skipped"} => outcome'[t] = outcome[t]
             /\ (outcome'[t] = "running" /\ outcome[t] # "running") => outcome[t] = "none"]_vars

\* C35 witness: on a pool that is not stopped one task has been run and
\* released, one is in an active slot and one waits in a queue.
C35_Witness ==
    /\ ~iStopped
    /\ \E t \in Tasks : outcome[t] = "run" /\ \A w \in Workers : iActiveTask[w] # t
    /\ \E w \in Workers : iActiveTask[w] # NoTask /\ outcome[iActiveTask[w]] = "running"
    /\ \E w \in Workers : iWaitingTasks[w] # << >>

\* C36: work conservation: on a pool that is not stopped, whenever no thread
\* holds the pool mutex and some worker has a task in its waiting queue,
\* every worker has an active task.
C36_WorkConservation ==
    (~iStopped /\ iMutex = NoThread /\ \E w \in Workers : iWaitingTasks[w] # << >>)
    => \A w \in Workers : iActiveTask[w] # NoTask

\* C37: the threads of the pool take the pool mutex before a worker's
\* condition mutex and before the wait mutex, never the other way round, and
\* hold at most one of those at a time; no thread waits for a mutex in a
\* cycle of threads that each wait for a mutex the next one holds.
C37_LockOrderNoCycle ==
    LET wants(th) == IF lk.prog[th] # << >> /\ Head(lk.prog[th]).op = "lock"
                     THEN Head(lk.prog[th]).m ELSE "none"
        holds(u, m) == \E k \in 1..Len(lk.held[u]) : lk.held[u][k] = m
        \* the thread th waits for: 0 when it does not wait
        blockedBy(th) ==
            IF th # 0 /\ \E u \in LockThreads :
                            holds(u, wants(th)) /\ (u # th \/ wants(th) # "pool")
            THEN CHOOSE u \in LockThreads :
                    holds(u, wants(th)) /\ (u # th \/ wants(th) # "pool")
            ELSE 0
    IN \A th \in LockThreads :
          /\ (wants(th) = "pool" /\ ~holds(th, "pool")) => lk.held[th] = << >>
          /\ wants(th) \notin {"none", "pool"}
             => \A k \in 1..Len(lk.held[th]) : lk.held[th][k] = "pool"
          /\ th \notin { blockedBy(th), blockedBy(blockedBy(th)),
                          blockedBy(blockedBy(blockedBy(th))) }

\* C37 witness: a worker thread holds the pool mutex, inside next_task(), and
\* is about to lock the wait mutex, which the client holds inside wait(),
\* while the other worker thread waits for the pool mutex.
C37_Witness ==
    /\ lk.held[3] = << "wait" >>
    /\ \E w \in WorkerIds :
          /\ lk.held[w] # << >>
          /\ lk.prog[w] # << >> /\ Head(lk.prog[w]) = [op |-> "lock", m |-> "wait"]
          /\ \E v \in WorkerIds \ {w} :
                /\ lk.prog[v] # << >> /\ Head(lk.prog[v]) = [op |-> "lock", m |-> "pool"]

\* C38: a newly subscribed handler is neither same-thread nor stateless until
\* its handle is tagged, so a queued delivery to an untagged handler is never
\* coalesced: a step that replaces the tail entry of a queue instead of
\* appending to it delivers to a handler that was tagged stateless.
C38_UntaggedNeverCoalesced ==
    [][\A q \in EvThreads :
          (evQueue'[q] # evQueue[q] /\ Len(evQueue'[q]) = Len(evQueue[q]))
          => LET c == evQueue'[q][Len(evQueue'[q])].cookie
             IN HasHandler(c) /\ handlers[FindHandler(c)].stateless = "set"]_vars

\* C40: for each thread, the depth counter of recursion_limiter equals the
\* number of live limiter objects of the thread and never exceeds the
\* maximum depth of the innermost of them, also after a construction that
\* failed with too_deep.
C40_DepthCountsLiveLimiters ==
    \A t \in EvThreads :
       /\ tDepth[t] = Len(limiters[t])
       /\ limiters[t] # << >> => tDepth[t] <= limiters[t][Len(limiters[t])]

\* C39: accept() and ignore() are only ever applied to an existing acceptance
\* context, also when the handler that calls them is invoked by a queued
\* callback: every accept() that was called marked a context.
C39_AcceptHasContext ==
    lastAccept.by # << 0, 0 >> => lastAccept.marked # << 0, 0 >>

====
